---- MODULE Spec2Model ----
(***************************************************************************)
(* Las Vegas Live: the hand-evaluation and round-settlement state machine  *)
(* of src/src/pages/Home.tsx.  The shared Firebase document (game/state,   *)
(* game/players, game/history) is the state; every handler of the Home     *)
(* component is one action.  Amounts are whole cents: every amount the     *)
(* code stores goes through toFixed(2).  Firebase stores an empty array    *)
(* and null as an absent node, so a null hand and an empty hand are both   *)
(* <<>>, a null choice is "" and a null finalScore is NullScore.           *)
(***************************************************************************)
EXTENDS Integers, Sequences, FiniteSets, TLC

VARIABLES
    gameState,      \* game/state
    players,        \* game/players: id -> Player record
    history,        \* game/history: sequence of {winners, pot}
    pendingDeal,    \* setTimeout(() => dealHands(handSize), 500) of startGame
    pendingDiscard, \* setTimeout(..., 100) of revealNextCard, with its closure
    toast,          \* the handler and title of the error toast the last call
                    \* ended in; a handler that writes clears it
    used,           \* how many startGame / resetHand calls were made (bounds)
    scoreIn,        \* the hand given to a scoring or filtering function
    scoreOut,       \* the function last applied and, for a score, its results
                    \* under "min" and "max"
    remote          \* a second client: the snapshot of game/state and
                    \* game/players it last rendered, and its pending bot timer

vars == <<gameState, players, history, pendingDeal, pendingDiscard, toast,
          used, scoreIn, scoreOut, remote>>

shared == <<gameState, players, history>>

\* no second client
NoRemote == [gameState |-> <<>>, players |-> <<>>, timer |-> <<>>]

----------------------------------------------------------------------------
(* Bounds of the model *)

\* how many of VALUES (in source order) the model's deck uses
DeckValueCount == 2
\* how many of VALUES (in source order) revealNextCard draws from
TableValueCount == 3
\* the bet slider offers 0.10 .. 0.10 * BetSteps (of the source's 0.10 .. 2.00)
BetSteps == 2
\* longest hand given to the scoring and discard functions in ScoreSpec and
\* DiscardSpec
MaxLen == 3
\* most cards on the table in DiscardSpec
MaxTable == 2
\* how many orders of the deck shuffle produces in the model
ShuffleCount == 2
\* startGame calls per behaviour
MaxStarts == 1
\* player records created per behaviour under Spec
MaxSeats == 2
\* resetHand calls per behaviour
MaxResets == 1
\* records in game/history per behaviour
MaxHistory == 1

\* ids that db.ref("game/players").push().key hands out, in order
PlayerIds == <<"p1", "p2", "p3">>
\* names typed into the join form by players other than the admin
JoinNames == {"ann"}
\* budgets typed into the join form, in cents
Budgets == {25}
\* "carte in mano" and "carte a terra" offered by the admin panel
HandSizes == {2}
TotalCardsOptions == {2}
\* scores typed into the declaration form
DeclaredScores == {1, 2, 11}

----------------------------------------------------------------------------
(* Program constants *)

VALUES == <<"A", "2", "3", "4", "5", "6", "7", "8", "9", "10", "J", "Q", "K">>
SUITS == <<"H", "D", "C", "S">>
MaxBetCap == 200
DefaultMinBet == 10
BotBalance == 10000
NullScore == 0 - 1

Range(s) == {s[i] : i \in DOMAIN s}

Min2(a, b) == IF a < b THEN a ELSE b
Max2(a, b) == IF a > b THEN a ELSE b

ModelValues == {VALUES[i] : i \in 1..Min2(DeckValueCount, Len(VALUES))}
TableValues == {VALUES[i] : i \in 1..Min2(TableValueCount, Len(VALUES))}
\* the suits the model's deck uses, and the suits revealNextCard draws from
ModelSuits == {"H", "D"}
TableSuits == {"H"}

\* buildDeck, restricted to the model's values and suits, in source order
buildDeck ==
    LET vs == SelectSeq(VALUES, LAMBDA v : v \in ModelValues)
        ss == SelectSeq(SUITS, LAMBDA s : s \in ModelSuits)
    IN  [k \in 1..(Len(vs) * Len(ss)) |->
            [value |-> vs[((k - 1) \div Len(ss)) + 1],
             suit |-> ss[((k - 1) % Len(ss)) + 1]]]

----------------------------------------------------------------------------
(* Scoring *)

\* a parseInt that reads only the first digit of the numeral
parseIntFirstDigit(s) ==
    CASE s = "2" -> 2 [] s = "3" -> 3 [] s = "4" -> 4 [] s = "5" -> 5
      [] s = "6" -> 6 [] s = "7" -> 7 [] s = "8" -> 8 [] s = "9" -> 9
      [] s = "10" -> 1

\* parseInt(card.value) on the numerals
parseInt(s) ==
    CASE s = "2" -> 2 [] s = "3" -> 3 [] s = "4" -> 4 [] s = "5" -> 5
      [] s = "6" -> 6 [] s = "7" -> 7 [] s = "8" -> 8 [] s = "9" -> 9
      [] s = "10" -> 10

\* a scoring in which the Ace counts 1 under either choice
cardPointsFlatAce(v, choice) ==
    IF v = "A" THEN 1
    ELSE IF v \in {"J", "Q", "K"} THEN 10
    ELSE parseInt(v)

\* the value the reducer of calculateHandScore adds for a card
cardPoints(v, choice) ==
    IF v = "A" THEN (IF choice = "max" THEN 11 ELSE 1)
    ELSE IF v \in {"J", "Q", "K"} THEN 10
    ELSE parseInt(v)

RECURSIVE reduceScore(_, _, _)
reduceScore(hand, choice, total) ==
    IF hand = <<>> THEN total
    ELSE reduceScore(Tail(hand), choice, total + cardPoints(Head(hand).value, choice))

calculateHandScore(hand, choice) ==
    IF Len(hand) = 0 THEN 0 ELSE reduceScore(hand, choice, 0)

\* variant 2 of the page: cardValueForChoice / computeFinalScoreFromHandArray
cardValueForChoice(val, choice) ==
    IF val = "A" THEN (IF choice = "min" THEN 1 ELSE 11)
    ELSE IF val \in {"K", "Q", "J", "10"} THEN 10
    ELSE parseInt(val)

RECURSIVE computeFinalScoreFromHandArray(_, _)
computeFinalScoreFromHandArray(hand, choice) ==
    IF hand = <<>> THEN 0
    ELSE cardValueForChoice(Head(hand).value, choice)
           + computeFinalScoreFromHandArray(Tail(hand), choice)

\* a filter that drops one card per call: the first whose value is revealed
getFilteredHandDropOne(playerHand, revealedCards) ==
    LET hits == {i \in DOMAIN playerHand :
                    \E k \in DOMAIN revealedCards :
                        revealedCards[k].value = playerHand[i].value}
    IN  IF hits = {} THEN playerHand
        ELSE LET first == CHOOSE i \in hits : \A j \in hits : i <= j
             IN  SubSeq(playerHand, 1, first - 1)
                   \o SubSeq(playerHand, first + 1, Len(playerHand))

getFilteredHand(playerHand, revealedCards) ==
    IF Len(playerHand) = 0 THEN <<>>
    ELSE IF Len(revealedCards) = 0 THEN playerHand
    ELSE LET revealedValues == {revealedCards[i].value : i \in DOMAIN revealedCards}
         IN  SelectSeq(playerHand, LAMBDA card : card.value \notin revealedValues)

----------------------------------------------------------------------------
(* The shared document *)

KeyIndex(id) == CHOOSE i \in DOMAIN PlayerIds : PlayerIds[i] = id

\* Object.keys(players): Firebase push keys sort in creation order
RECURSIVE KeysOf(_)
KeysOf(S) ==
    IF S = {} THEN <<>>
    ELSE LET first == CHOOSE id \in S : \A o \in S : KeyIndex(id) <= KeyIndex(o)
         IN  <<first>> \o KeysOf(S \ {first})

ObjectKeys == KeysOf(DOMAIN players)

\* .sort((a, b) => a.position - b.position) of the ids in S (a stable sort of
\* Object.values order)
RECURSIVE SortByPosition(_, _)
SortByPosition(ps, S) ==
    IF S = {} THEN <<>>
    ELSE LET first == CHOOSE id \in S : \A o \in S :
                          \/ ps[id].position < ps[o].position
                          \/ /\ ps[id].position = ps[o].position
                             /\ KeyIndex(id) <= KeyIndex(o)
         IN  <<first>> \o SortByPosition(ps, S \ {first})

\* the record joinGame, handleAdminLogin and handleAddBot set
NewPlayer(name, budget, admin, bot, pos) ==
    [username |-> name, balance |-> budget, isAdmin |-> admin, isBot |-> bot,
     lastBet |-> 0, position |-> pos, hasActed |-> FALSE, folded |-> FALSE,
     choice |-> "", finalScore |-> NullScore, hand |-> <<>>,
     totalBetThisHand |-> 0, discardedCards |-> <<>>]

\* the row defaults of shared/schema.ts gameSessions
DefaultTotalCards == 4

InitialGameState ==
    [phase |-> "lobby", pot |-> 0, currentBet |-> 0, revealedCards |-> <<>>,
     totalCards |-> DefaultTotalCards, handSize |-> 0, dealerIndex |-> 0,
     currentPlayerTurn |-> "", waitingForDealer |-> FALSE]

NoToast == [op |-> "", title |-> ""]
MkToast(op, title) == [op |-> op, title |-> title]

NoScore == [by |-> "", min |-> 0, max |-> 0]
NoDeal == [active |-> FALSE, handSize |-> 0, ids |-> <<>>]
NoDiscard == [active |-> FALSE, revealedCards |-> <<>>, players |-> <<>>]

Init ==
    /\ gameState = InitialGameState
    /\ players = <<>>
    /\ history = <<>>
    /\ pendingDeal = NoDeal
    /\ pendingDiscard = NoDiscard
    /\ toast = NoToast
    /\ used = [starts |-> 0, resets |-> 0]
    /\ scoreIn = <<>>
    /\ scoreOut = NoScore
    /\ remote = NoRemote

\* a handler that returns after a toast: nothing is written
Rejected(op, title) ==
    /\ toast' = MkToast(op, title)
    /\ UNCHANGED <<remote, gameState, players, history, pendingDeal, pendingDiscard, used,
                   scoreIn, scoreOut>>

\* the clients: a browser whose localPlayerId names a player record
Humans == {id \in DOMAIN players : ~players[id].isBot}
\* a page on which every client is in admin mode
IsAdminClientAnyone(me) == me \in DOMAIN players

\* isAdminMode && currentUser
IsAdminClient(me) == me \in DOMAIN players /\ players[me].isAdmin
AdminClients == {id \in Humans : IsAdminClient(id)}

\* the next key db.ref("game/players").push() returns
HasFreeId == Cardinality(DOMAIN players) < Min2(MaxSeats, Len(PlayerIds))
NextId == PlayerIds[Cardinality(DOMAIN players) + 1]

AddPlayer(id, rec) == [k \in DOMAIN players \cup {id} |->
                          IF k = id THEN rec ELSE players[k]]

----------------------------------------------------------------------------
(* Joining: the form shown to a client without a player record *)

joinGame(username, budget) ==
    /\ HasFreeId
    /\ gameState.phase = "lobby"
    /\ IF budget <= 0
       THEN Rejected("joinGame", "Budget non valido")
       ELSE IF \E id \in DOMAIN players :
                  players[id].username = username /\ ~players[id].folded
       THEN Rejected("joinGame", "Nome gia in uso")
       ELSE /\ players' = AddPlayer(NextId,
                   NewPlayer(username, budget, FALSE, FALSE,
                             Cardinality(DOMAIN players)))
            /\ toast' = NoToast
            /\ UNCHANGED <<remote, gameState, history, pendingDeal, pendingDiscard, used,
                           scoreIn, scoreOut>>

handleAdminLogin(budget) ==
    /\ HasFreeId
    /\ gameState.phase = "lobby"
    /\ IF budget <= 0
       THEN Rejected("handleAdminLogin", "Budget non valido")
       ELSE IF \E id \in DOMAIN players :
                  players[id].username = "diro" /\ ~players[id].folded
       THEN Rejected("handleAdminLogin", "Admin gia presente")
       ELSE /\ players' = AddPlayer(NextId,
                   NewPlayer("diro", budget, TRUE, FALSE, 0))
            /\ toast' = NoToast
            /\ UNCHANGED <<remote, gameState, history, pendingDeal, pendingDiscard, used,
                           scoreIn, scoreOut>>

BotNames == <<"Bot_Alpha", "Bot_Beta", "Bot_Gamma", "Bot_Delta", "Bot_Epsilon">>

handleAddBot(me) ==
    /\ IsAdminClient(me)
    /\ HasFreeId
    /\ gameState.phase = "lobby"
    /\ LET usedNames == {players[id].username : id \in DOMAIN players}
           availableNames == SelectSeq(BotNames, LAMBDA n : n \notin usedNames)
       IN  /\ availableNames # <<>>
           /\ players' = AddPlayer(NextId,
                  NewPlayer(availableNames[1], BotBalance, FALSE, TRUE,
                            Cardinality(DOMAIN players)))
    /\ toast' = NoToast
    /\ UNCHANGED <<remote, gameState, history, pendingDeal, pendingDiscard, used,
                   scoreIn, scoreOut>>

----------------------------------------------------------------------------
(* Starting a round: the admin panel *)

setHandSize(me, n) ==
    /\ IsAdminClient(me)
    /\ gameState.phase = "lobby"
    /\ gameState' = [gameState EXCEPT !.handSize = n]
    /\ toast' = NoToast
    /\ UNCHANGED <<remote, players, history, pendingDeal, pendingDiscard, used,
                   scoreIn, scoreOut>>

\* every player's round fields as startGame and resetHand write them
ClearedForRound(p) ==
    [p EXCEPT !.lastBet = 0, !.finalScore = NullScore, !.choice = "",
              !.hasActed = FALSE, !.folded = FALSE, !.totalBetThisHand = 0,
              !.hand = <<>>, !.discardedCards = <<>>]

\* a dealer pointer left at its initial 0
StartDealerIndexZero(ps) == 0

\* dealerIndex of startGame: the position of the first admin record, or of
\* the player of lowest position, or 0 on an empty table
StartDealerIndex(ps) ==
    LET admins == {id \in DOMAIN ps : ps[id].isAdmin}
        adminPlayer == KeysOf(admins)[1]
        firstPlayer == SortByPosition(ps, DOMAIN ps)[1]
    IN  IF admins # {} THEN ps[adminPlayer].position
        ELSE IF DOMAIN ps # {} THEN ps[firstPlayer].position
        ELSE 0

\* startGame as the admin panel's CARTE button calls it
startGameCalled(totalCards) ==
    /\ used.starts < MaxStarts
    /\ ~pendingDeal.active
    /\ IF gameState.handSize = 0
       THEN Rejected("startGame", "Selezione incompleta")
       ELSE LET handSize == gameState.handSize
                dealerIndex == StartDealerIndex(players)
            IN  /\ gameState' =
                       [phase |-> "betting", pot |-> 0, currentBet |-> 0,
                        revealedCards |-> <<>>, totalCards |-> totalCards,
                        handSize |-> handSize, dealerIndex |-> dealerIndex,
                        currentPlayerTurn |-> "", waitingForDealer |-> TRUE]
                /\ players' = [id \in DOMAIN players |-> ClearedForRound(players[id])]
                /\ pendingDeal' = [active |-> TRUE, handSize |-> handSize,
                                   ids |-> SelectSeq(ObjectKeys,
                                              LAMBDA id : players[id].username # "")]
                /\ used' = [used EXCEPT !.starts = @ + 1]
                /\ toast' = NoToast
                /\ UNCHANGED <<remote, history, pendingDiscard, scoreIn, scoreOut>>

startGame(me, totalCards) ==
    /\ IsAdminClient(me)
    /\ startGameCalled(totalCards)

\* shuffle(buildDeck()): the orders of the deck the model draws, its rotations
Rotate(deck, k) == [i \in DOMAIN deck |-> deck[((i - 1 + k) % Len(deck)) + 1]]
ShuffledDecks == {Rotate(buildDeck, k) : k \in 0..(ShuffleCount - 1)}

\* the hand of the k-th player of dealHands: deckIndex wraps to 0 at the end
DealtHand(deck, k, handSize) ==
    [i \in 1..handSize |-> deck[(((k - 1) * handSize + (i - 1)) % Len(deck)) + 1]]

\* the callback of setTimeout(() => dealHands(handSize), 500)
dealHands ==
    /\ pendingDeal.active
    /\ \E deck \in ShuffledDecks :
          players' = [id \in DOMAIN players |->
              IF \E k \in DOMAIN pendingDeal.ids : pendingDeal.ids[k] = id
              THEN LET k == CHOOSE k \in DOMAIN pendingDeal.ids :
                                pendingDeal.ids[k] = id
                   IN  [players[id] EXCEPT
                           !.hand = DealtHand(deck, k, pendingDeal.handSize),
                           !.discardedCards = <<>>]
              ELSE players[id]]
    /\ gameState' = [gameState EXCEPT !.handSize = pendingDeal.handSize]
    /\ pendingDeal' = NoDeal
    /\ toast' = NoToast
    /\ UNCHANGED <<remote, history, pendingDiscard, used, scoreIn, scoreOut>>

setManualDealer(me, id) ==
    /\ IsAdminClient(me)
    /\ gameState.waitingForDealer
    /\ id \in DOMAIN players
    /\ gameState' = [gameState EXCEPT !.dealerIndex = players[id].position]
    /\ toast' = NoToast
    /\ UNCHANGED <<remote, players, history, pendingDeal, pendingDiscard, used,
                   scoreIn, scoreOut>>

confirmDealerAndContinue(me) ==
    /\ IsAdminClient(me)
    /\ gameState.waitingForDealer
    /\ LET matching == {id \in DOMAIN players :
                           players[id].position = gameState.dealerIndex}
       IN  IF matching = {}
           THEN Rejected("confirmDealerAndContinue", "Errore")
           ELSE /\ gameState' = [gameState EXCEPT
                       !.waitingForDealer = FALSE,
                       !.currentPlayerTurn = KeysOf(matching)[1]]
                /\ toast' = NoToast
                /\ UNCHANGED <<remote, players, history, pendingDeal, pendingDiscard,
                               used, scoreIn, scoreOut>>

----------------------------------------------------------------------------
(* Turn order and betting *)

\* "" stands for the null the source returns
\* a filter that keeps the folded players
TurnEligibleFolded(p) == p.balance > 0

\* the filter of getNextActivePlayerId's playerList
TurnEligible(p) == p.folded = FALSE /\ p.balance > 0

getNextActivePlayerId ==
    LET playerList == SortByPosition(players,
            {id \in DOMAIN players : TurnEligible(players[id])})
        found == {i \in DOMAIN playerList :
                     playerList[i] = gameState.currentPlayerTurn}
    IN  IF Len(playerList) <= 1 THEN ""
        ELSE IF found = {} THEN playerList[1]
        ELSE LET currentIndex == CHOOSE i \in found : TRUE
             IN  playerList[(currentIndex % Len(playerList)) + 1]

\* the betting panel is rendered for the admin, and for the player to act
BettingPanel(me) ==
    /\ me \in Humans
    /\ \/ IsAdminClient(me)
       \/ gameState.phase = "betting" /\ gameState.currentPlayerTurn = me
    /\ ~gameState.waitingForDealer

\* the CHECK button is disabled for a player who owes a bet, the admin excepted
CheckButton(me) ==
    players[me].lastBet = gameState.currentBet \/ IsAdminClient(me)

\* Spec has the admin use the panel, which is rendered for them in every
\* phase, during the betting rounds only
PanelInRound == gameState.phase = "betting" /\ used.resets = 0

\* the values the slider (min 0.10, step 0.10) leaves in betAmount
BetAmounts == {DefaultMinBet * k : k \in 1..BetSteps}

\* betVal: betAmount capped at 2.00
BetVal(betAmount) == IF betAmount > MaxBetCap THEN MaxBetCap ELSE betAmount

\* const minBet = gameState.currentBet || 0.1
MinBet == IF gameState.currentBet = 0 THEN DefaultMinBet ELSE gameState.currentBet

\* a guard that compares the bet with the table minimum of 0.10 only
BetBelowFloor(betVal) == betVal < DefaultMinBet

\* the guard of handleBet on the bet against the table's current bet
BetTooLow(betVal) == betVal < MinBet

\* a guard that only asks whether the player has any money left
BetUnaffordableWhenBroke(diff, balance) == balance <= 0

\* the guard of handleBet on the differential against the balance
BetUnaffordable(diff, balance) == diff > balance

\* a test that takes a call for a raise as well
IsRaiseOrCall(betVal, currentBet) == betVal >= currentBet

\* if (betVal > gameState.currentBet): the bet is a raise
IsRaise(betVal, currentBet) == betVal > currentBet

\* diff: what the bet adds to the player's lastBet
BetDiff(betVal, lastBet) == Max2(0, betVal - lastBet)

handleBet(me, betAmount) ==
    /\ me \in Humans
    /\ IF gameState.waitingForDealer
       THEN Rejected("handleBet", "Azione bloccata")
       ELSE IF ~IsAdminClient(me) /\ gameState.currentPlayerTurn # me
       THEN Rejected("handleBet", "Non e il tuo turno")
       ELSE LET betVal == BetVal(betAmount)
                lastBet == players[me].lastBet
                diff == BetDiff(betVal, lastBet)
            IN  IF BetTooLow(betVal)
                THEN Rejected("handleBet", "Puntata non valida")
                ELSE IF BetUnaffordable(diff, players[me].balance)
                THEN Rejected("handleBet", "Saldo insufficiente")
                ELSE /\ players' = [id \in DOMAIN players |->
                            IF id = me
                            THEN [players[id] EXCEPT
                                     !.balance = @ - diff,
                                     !.lastBet = betVal,
                                     !.hasActed = TRUE,
                                     !.totalBetThisHand = @ + diff]
                            ELSE IF IsRaise(betVal, gameState.currentBet)
                                 THEN [players[id] EXCEPT !.hasActed = FALSE]
                                 ELSE players[id]]
                     /\ gameState' = [gameState EXCEPT
                            !.pot = @ + diff,
                            !.currentBet = betVal,
                            !.currentPlayerTurn = getNextActivePlayerId]
                     /\ toast' = NoToast
                     /\ UNCHANGED used
                     /\ UNCHANGED <<remote, history, pendingDeal, pendingDiscard,
                                    scoreIn, scoreOut>>

\* a check that is accepted whatever the player owes
CanCheckAlways(lastBet, currentBet) == TRUE

\* the test of handleCheck: currentUser.lastBet === gameState.currentBet
CanCheck(lastBet, currentBet) == lastBet = currentBet

handleCheck(me) ==
    /\ me \in Humans
    /\ IF gameState.waitingForDealer
       THEN Rejected("handleCheck", "Azione bloccata")
       ELSE IF ~IsAdminClient(me) /\ gameState.currentPlayerTurn # me
       THEN Rejected("handleCheck", "Non e il tuo turno")
       ELSE IF CanCheck(players[me].lastBet, gameState.currentBet)
       THEN /\ players' = [players EXCEPT ![me].hasActed = TRUE]
            /\ gameState' = [gameState EXCEPT
                   !.currentPlayerTurn = getNextActivePlayerId]
            /\ toast' = NoToast
            /\ UNCHANGED used
            /\ UNCHANGED <<remote, history, pendingDeal, pendingDiscard,
                           scoreIn, scoreOut>>
       ELSE Rejected("handleCheck", "Check non consentito")

handleFold(me) ==
    /\ me \in Humans
    /\ IF gameState.waitingForDealer
       THEN Rejected("handleFold", "Azione bloccata")
       ELSE IF ~IsAdminClient(me) /\ gameState.currentPlayerTurn # me
       THEN Rejected("handleFold", "Non e il tuo turno")
       ELSE /\ players' = [players EXCEPT ![me].folded = TRUE,
                                          ![me].hasActed = TRUE]
            /\ gameState' = [gameState EXCEPT
                   !.currentPlayerTurn = getNextActivePlayerId]
            /\ toast' = NoToast
            /\ UNCHANGED used
            /\ UNCHANGED <<remote, history, pendingDeal, pendingDiscard,
                           scoreIn, scoreOut>>

\* the bot effect: the callback of its setTimeout, run on the bot's turn
\* a bot that never folds
BotFoldsNever(diff, balance) == FALSE

\* else if (diff > balance): the bot cannot pay what it owes
BotFolds(diff, balance) == diff > balance

botAction ==
    /\ gameState.phase = "betting"
    /\ ~gameState.waitingForDealer
    /\ gameState.currentPlayerTurn \in DOMAIN players
    /\ players[gameState.currentPlayerTurn].isBot
    /\ LET bot == gameState.currentPlayerTurn
           currentBet == gameState.currentBet
           lastBet == players[bot].lastBet
           balance == players[bot].balance
           diff == Max2(0, currentBet - lastBet)
       IN  IF currentBet = 0 \/ currentBet <= lastBet
           THEN /\ players' = [players EXCEPT ![bot].hasActed = TRUE,
                                              ![bot].lastBet = currentBet]
                /\ gameState' = [gameState EXCEPT
                       !.currentPlayerTurn = getNextActivePlayerId]
                /\ toast' = NoToast
           ELSE IF BotFolds(diff, balance)
           THEN /\ players' = [players EXCEPT ![bot].folded = TRUE,
                                              ![bot].hasActed = TRUE]
                /\ gameState' = [gameState EXCEPT
                       !.currentPlayerTurn = getNextActivePlayerId]
                /\ toast' = NoToast
           ELSE /\ players' = [players EXCEPT
                       ![bot].balance = balance - diff,
                       ![bot].lastBet = currentBet,
                       ![bot].hasActed = TRUE,
                       ![bot].totalBetThisHand = @ + diff]
                /\ gameState' = [gameState EXCEPT
                       !.pot = @ + diff,
                       !.currentPlayerTurn = getNextActivePlayerId]
                /\ toast' = NoToast
    /\ UNCHANGED <<remote, history, pendingDeal, pendingDiscard, used, scoreIn, scoreOut>>

\* the bot effect as it runs in the page of a client: it reads gameState and
\* players and tests neither isAdminMode nor whose page it is
botActionBy(client) ==
    /\ client \in Humans
    /\ botAction

----------------------------------------------------------------------------
(* The admin effect, the reveal and the silent discard *)

\* the players the admin effect looks at: not folded, by position
EffectPlayerList == SortByPosition(players,
                        {id \in DOMAIN players : players[id].folded = FALSE})

\* an admin effect that does not look at the gate
AdminEffectRunsUnderGate ==
    /\ AdminClients # {}
    /\ EffectPlayerList # <<>>

\* the admin effect runs: an admin client, the gate clear, someone to play
AdminEffectRuns ==
    /\ AdminClients # {}
    /\ ~gameState.waitingForDealer
    /\ EffectPlayerList # <<>>

\* a round that counts as complete as soon as the bets are level
BettingCompleteMatchedOnly ==
    \A id \in Range(EffectPlayerList) : players[id].lastBet = gameState.currentBet

BettingComplete ==
    /\ \A id \in Range(EffectPlayerList) : players[id].hasActed
    /\ \A id \in Range(EffectPlayerList) :
          players[id].lastBet = gameState.currentBet

adminEffectBetting ==
    /\ AdminEffectRuns
    /\ gameState.phase = "betting"
    /\ IF BettingComplete
       THEN /\ gameState' = [gameState EXCEPT !.phase = "revealing"]
            /\ toast' = NoToast
       ELSE /\ gameState.currentPlayerTurn = ""
            /\ LET atDealer == {i \in DOMAIN EffectPlayerList :
                       players[EffectPlayerList[i]].position = gameState.dealerIndex}
                   dealerPlayer == IF atDealer = {} THEN EffectPlayerList[1]
                                   ELSE EffectPlayerList[CHOOSE i \in atDealer :
                                            \A j \in atDealer : i <= j]
               IN  gameState' = [gameState EXCEPT !.currentPlayerTurn = dealerPlayer]
            /\ toast' = NoToast
    /\ UNCHANGED <<remote, players, history, pendingDeal, pendingDiscard, used,
                   scoreIn, scoreOut>>

\* updatedDiscarded.filter((card, index, self) => index === self.findIndex(...))
UniqueCards(cards) ==
    LET keep == {i \in DOMAIN cards : \A j \in 1..(i - 1) : cards[j] # cards[i]}
    IN  SelectSeq([i \in DOMAIN cards |-> <<i, cards[i]>>],
                  LAMBDA e : e[1] \in keep)

CardsOnly(pairs) == [i \in DOMAIN pairs |-> pairs[i][2]]

\* a filter that drops only the first card of the revealed value
DiscardFirstMatch(hand, value) ==
    LET hits == {i \in DOMAIN hand : hand[i].value = value}
    IN  IF hits = {} THEN hand
        ELSE LET first == CHOOSE i \in hits : \A j \in hits : i <= j
             IN  SubSeq(hand, 1, first - 1) \o SubSeq(hand, first + 1, Len(hand))

\* newHand of applySilentDiscard: the cards whose value is not the revealed one
DiscardFilter(hand, value) == SelectSeq(hand, LAMBDA card : card.value # value)

\* cardsToDiscard of applySilentDiscard
CardsToDiscard(hand, value) == SelectSeq(hand, LAMBDA card : card.value = value)

\* applySilentDiscard as run by a closure that holds closureRevealed and
\* closurePlayers: the update it sends, applied to the stored players ps
applySilentDiscard(ps, closureRevealed, closurePlayers) ==
    IF Len(closureRevealed) = 0 THEN ps
    ELSE LET value == closureRevealed[Len(closureRevealed)].value
         IN  [id \in DOMAIN ps |->
                 IF /\ id \in DOMAIN closurePlayers
                    /\ Len(closurePlayers[id].hand) > 0
                    /\ Len(CardsToDiscard(closurePlayers[id].hand, value)) > 0
                 THEN [ps[id] EXCEPT
                         !.hand = DiscardFilter(closurePlayers[id].hand, value),
                         !.discardedCards = CardsOnly(UniqueCards(
                             closurePlayers[id].discardedCards
                               \o CardsToDiscard(closurePlayers[id].hand, value)))]
                 ELSE ps[id]]

\* variant 2 of the page: discardMatchingCardsAgainstTable, on the same hands
discardMatchingCardsAgainstTable(ps, revealed) ==
    LET revealedValues == {revealed[i].value : i \in DOMAIN revealed}
    IN  IF revealedValues = {} THEN ps
        ELSE [id \in DOMAIN ps |->
                LET filtered == SelectSeq(ps[id].hand,
                                    LAMBDA c : c.value \notin revealedValues)
                IN  IF Len(filtered) # Len(ps[id].hand)
                    THEN [ps[id] EXCEPT !.hand = filtered]
                    ELSE ps[id]]

\* every table value, revealed or not
AvailableValuesAll(revealedValues) == TableValues

\* the values not yet used on the table
AvailableValues(revealedValues) == TableValues \ revealedValues

\* a table that takes the new card in front
NextRevealedInFront(currentRevealed, nextCard) == <<nextCard>> \o currentRevealed

\* const nextRevealed = [...currentRevealed, nextCard]
NextRevealed(currentRevealed, nextCard) == Append(currentRevealed, nextCard)

\* a test that takes the last card for one more ordinary card
IsLastCardLate(nextRevealed, totalCards) == Len(nextRevealed) > totalCards

\* if (nextRevealed.length >= gameState.totalCards)
IsLastCard(nextRevealed, totalCards) == Len(nextRevealed) >= totalCards

\* revealNextCard: the callback of the admin effect's timer in phase revealing,
\* and the admin's GIRA (FORZA) button, enabled in phase betting with the gate clear
revealNextCard ==
    /\ \/ AdminEffectRuns /\ gameState.phase = "revealing"
       \/ AdminClients # {} /\ gameState.phase = "betting"
                            /\ ~gameState.waitingForDealer
    /\ ~pendingDiscard.active
    /\ LET revealedValues == {gameState.revealedCards[i].value :
                                 i \in DOMAIN gameState.revealedCards}
           availableValues == AvailableValues(revealedValues)
       IN  IF availableValues = {}
           THEN Rejected("revealNextCard", "Errore")
           ELSE \E value \in availableValues, suit \in TableSuits :
                  LET nextCard == [value |-> value, suit |-> suit]
                      nextRevealed == NextRevealed(gameState.revealedCards, nextCard)
                  IN  /\ IF IsLastCard(nextRevealed, gameState.totalCards)
                         THEN /\ gameState' = [gameState EXCEPT
                                     !.revealedCards = nextRevealed,
                                     !.phase = "final",
                                     !.currentBet = 0,
                                     !.currentPlayerTurn = "",
                                     !.waitingForDealer = FALSE]
                              /\ UNCHANGED pendingDiscard
                         ELSE /\ gameState' = [gameState EXCEPT
                                     !.revealedCards = nextRevealed]
                              /\ pendingDiscard' =
                                     [active |-> TRUE,
                                      revealedCards |-> gameState.revealedCards,
                                      players |-> players]
                      /\ players' = [id \in DOMAIN players |->
                             [players[id] EXCEPT !.lastBet = 0, !.hasActed = FALSE]]
                      /\ toast' = NoToast
                      /\ UNCHANGED <<remote, history, pendingDeal, used, scoreIn, scoreOut>>

\* the callback of revealNextCard's setTimeout(..., 100)
discardTimer ==
    /\ pendingDiscard.active
    /\ players' = applySilentDiscard(players, pendingDiscard.revealedCards,
                                     pendingDiscard.players)
    /\ gameState' = [gameState EXCEPT
           !.phase = "betting", !.currentBet = 0, !.currentPlayerTurn = "",
           !.waitingForDealer = TRUE]
    /\ pendingDiscard' = NoDiscard
    /\ toast' = NoToast
    /\ UNCHANGED <<remote, history, pendingDeal, used, scoreIn, scoreOut>>

----------------------------------------------------------------------------
(* Declaration and settlement *)

\* the declaration panel is rendered in phase final for a player without choice
\* a declaration panel shown in every phase and after a declaration
FinalPanelAlways(me) == me \in Humans

FinalPanel(me) ==
    /\ me \in Humans
    /\ gameState.phase = "final"
    /\ players[me].choice = ""

\* the comparison of submitFinal: declaredScore !== correctScore
\* a comparison that lets a declaration that is off by one pass
ScoreMismatchByTwo(declaredScore, correctScore) ==
    declaredScore > correctScore + 1 \/ declaredScore < correctScore - 1

ScoreMismatch(declaredScore, correctScore) == declaredScore # correctScore

submitFinal(me, choice, declaredScore) ==
    /\ FinalPanel(me)
    /\ LET filteredHand == getFilteredHand(players[me].hand, gameState.revealedCards)
           correctScore == calculateHandScore(filteredHand, choice)
       IN  IF ScoreMismatch(declaredScore, correctScore)
           THEN Rejected("submitFinal", "Errore di dichiarazione")
           ELSE /\ players' = [players EXCEPT ![me].choice = choice,
                                              ![me].finalScore = declaredScore]
                /\ toast' = NoToast
                /\ UNCHANGED <<remote, gameState, history, pendingDeal, pendingDiscard,
                               used, scoreIn, scoreOut>>

\* the admin effect in phase final: bots without a choice declare after 1 s
BotsWithoutChoice == {id \in Range(EffectPlayerList) :
                         /\ players[id].username # ""
                         /\ players[id].isBot
                         /\ players[id].choice = ""}

botsDeclare ==
    /\ AdminEffectRuns
    /\ gameState.phase = "final"
    /\ BotsWithoutChoice # {}
    /\ \E choices \in [BotsWithoutChoice -> {"min", "max"}] :
          players' = [id \in DOMAIN players |->
              IF id \in BotsWithoutChoice
              THEN [players[id] EXCEPT
                      !.choice = choices[id],
                      !.finalScore = calculateHandScore(
                          getFilteredHand(players[id].hand, gameState.revealedCards),
                          choices[id])]
              ELSE players[id]]
    /\ toast' = NoToast
    /\ UNCHANGED <<remote, gameState, history, pendingDeal, pendingDiscard, used,
                   scoreIn, scoreOut>>

\* a test that is content with one declaration
AllDeclaredSome ==
    \E id \in Range(EffectPlayerList) :
        players[id].choice # "" /\ players[id].finalScore # NullScore

\* the admin effect schedules calculateWinners() after 2 s
AllDeclared ==
    LET activePlayers == {id \in Range(EffectPlayerList) : players[id].username # ""}
        declarations == {id \in activePlayers :
                            players[id].choice # "" /\ players[id].finalScore # NullScore}
    IN  /\ BotsWithoutChoice = {}
        /\ declarations = activePlayers
        /\ activePlayers # {}

\* pots (in cents, multiples of 10 up to 12.00) whose IEEE double lies above the
\* decimal value: an exact half cent of such a pot is rounded up by toFixed(2)
DoubleAbove ==
    {10, 20, 50, 90, 100, 110, 130, 150, 180, 210, 220, 250, 260, 270, 300, 310,
     350, 370, 420, 450, 470, 490, 500, 540, 550, 570, 590, 620, 650, 670, 690,
     700, 740, 750, 770, 790, 830, 850, 890, 900, 930, 940, 950, 980, 990, 1030,
     1050, 1090, 1100, 1130, 1140, 1150, 1180, 1190}

\* parseFloat((share / n).toFixed(2)) with share = pot / d, in cents
SplitAmount(pot, d, n) ==
    LET q == pot \div (d * n)
        r == pot % (d * n)
    IN  IF 2 * r < d * n THEN q
        ELSE IF 2 * r > d * n THEN q + 1
        ELSE IF pot \in DoubleAbove THEN q + 1 ELSE q

SetMin(S) == CHOOSE x \in S : \A y \in S : x <= y
SetMax(S) == CHOOSE x \in S : \A y \in S : x >= y

\* a playerList that keeps the declared players who folded
DeclaredWithFolded(ps) == {id \in DOMAIN ps :
                              /\ ps[id].choice # ""
                              /\ ps[id].finalScore # NullScore}

\* playerList of calculateWinners: the declared players that did not fold
Declared(ps) == {id \in DOMAIN ps :
                    /\ ps[id].folded = FALSE
                    /\ ps[id].choice # ""
                    /\ ps[id].finalScore # NullScore}

\* the winners of one category: the players of that choice at the best score
CategoryWinners(ps, cat) ==
    LET group == {id \in Declared(ps) : ps[id].choice = cat}
        scores == {ps[id].finalScore : id \in group}
    IN  IF group = {} THEN {}
        ELSE {id \in group : ps[id].finalScore =
                 (IF cat = "min" THEN SetMin(scores) ELSE SetMax(scores))}

\* a settlement that hands every category the whole pot
ShareDivisorWholePot(ps) == 1

\* the divisor of the pot for a category: 2 when both categories have players
ShareDivisor(ps) ==
    IF /\ \E id \in Declared(ps) : ps[id].choice = "min"
       /\ \E id \in Declared(ps) : ps[id].choice = "max"
    THEN 2 ELSE 1

\* the amount calculateWinners adds to id's balance in a normal settlement
Credit(ps, pot, id) ==
    IF id \in CategoryWinners(ps, "min")
    THEN SplitAmount(pot, ShareDivisor(ps), Cardinality(CategoryWinners(ps, "min")))
    ELSE IF id \in CategoryWinners(ps, "max")
    THEN SplitAmount(pot, ShareDivisor(ps), Cardinality(CategoryWinners(ps, "max")))
    ELSE 0

\* winnersInfo: the min winners, then the max winners, in Object.values order
WinnersInfo(ps, pot) ==
    LET line(id) == [id |-> id, amount |-> Credit(ps, pot, id),
                     tag |-> ps[id].choice]
        mins == SelectSeq(KeysOf(DOMAIN ps),
                          LAMBDA id : id \in CategoryWinners(ps, "min"))
        maxs == SelectSeq(KeysOf(DOMAIN ps),
                          LAMBDA id : id \in CategoryWinners(ps, "max"))
    IN  [i \in DOMAIN mins |-> line(mins[i])] \o [i \in DOMAIN maxs |-> line(maxs[i])]

\* a LAS VEGAS that pays the winner half of the pot
JackpotBalanceHalf(p, pot) == p.balance + (pot \div 2)

\* the balance calculateWinners writes for the special winner
JackpotBalance(p, pot) == p.balance + pot

\* what calculateWinners writes to game/state
StateAfterSettlement(gs) == [gs EXCEPT !.phase = "results"]

\* calculateWinners(specialWinnerId); "" is the call without an argument.
\* The LAS VEGAS buttons of the admin panel pass a player; FORZA CALCOLO is
\* enabled in phase final, and the admin effect calls it once all have declared
calculateWinners(specialWinnerId) ==
    /\ AdminClients # {}
    /\ Len(history) < MaxHistory
    /\ IF specialWinnerId # ""
       THEN specialWinnerId \in DOMAIN players
       ELSE gameState.phase = "final"
    /\ LET pot == gameState.pot
       IN  IF specialWinnerId # ""
           THEN /\ players' = [players EXCEPT ![specialWinnerId].balance =
                                   JackpotBalance(players[specialWinnerId], pot)]
                /\ history' = Append(history,
                       [winners |-> <<[id |-> specialWinnerId, amount |-> pot,
                                       tag |-> "LAS VEGAS"]>>,
                        pot |-> pot])
                /\ gameState' = StateAfterSettlement(gameState)
                /\ toast' = NoToast
                /\ UNCHANGED <<remote, pendingDeal, pendingDiscard, used, scoreIn, scoreOut>>
           ELSE IF Declared(players) = {}
           THEN Rejected("calculateWinners", "Nessun vincitore")
           ELSE /\ players' = [id \in DOMAIN players |->
                       [players[id] EXCEPT !.balance = @ + Credit(players, pot, id)]]
                /\ history' = Append(history,
                       [winners |-> WinnersInfo(players, pot), pot |-> pot])
                /\ gameState' = StateAfterSettlement(gameState)
                /\ toast' = NoToast
                /\ UNCHANGED <<remote, pendingDeal, pendingDiscard, used, scoreIn, scoreOut>>

\* the admin effect in phase final sets the timer of calculateWinners()
SettleScheduled ==
    /\ AdminEffectRuns
    /\ gameState.phase = "final"
    /\ AllDeclared

\* the callback of setTimeout(() => calculateWinners(), 2000); a render that
\* changes gameState or players clears the timer
settleTimer ==
    /\ SettleScheduled
    /\ calculateWinners("")

handleNextHand(me) ==
    /\ IsAdminClient(me)
    /\ gameState.phase = "results"
    /\ gameState' = [gameState EXCEPT
           !.phase = "lobby", !.pot = 0, !.currentBet = 0,
           !.revealedCards = <<>>, !.waitingForDealer = TRUE]
    /\ toast' = NoToast
    /\ UNCHANGED <<remote, players, history, pendingDeal, pendingDiscard, used,
                   scoreIn, scoreOut>>

\* a refund that skips the players who folded
RefundedUnlessFolded(p) ==
    IF p.totalBetThisHand > 0 /\ ~p.folded THEN p.balance + p.totalBetThisHand
    ELSE p.balance

\* the balance resetHand writes for a player: the round's bets come back
Refunded(p) == IF p.totalBetThisHand > 0 THEN p.balance + p.totalBetThisHand
               ELSE p.balance

resetHand(me) ==
    /\ IsAdminClient(me)
    /\ used.resets < MaxResets
    /\ players' = [id \in DOMAIN players |->
           [ClearedForRound(players[id]) EXCEPT !.balance = Refunded(players[id])]]
    /\ gameState' = [gameState EXCEPT
           !.phase = "betting", !.pot = 0, !.currentBet = 0,
           !.revealedCards = <<>>, !.currentPlayerTurn = "",
           !.waitingForDealer = TRUE]
    /\ used' = [used EXCEPT !.resets = @ + 1]
    /\ toast' = NoToast
    /\ UNCHANGED <<remote, history, pendingDeal, pendingDiscard, scoreIn, scoreOut>>

----------------------------------------------------------------------------
(* ScoreSpec: the scoring functions on every hand of up to MaxLen cards *)

\* the hands of at most MaxLen cards over all of VALUES; scoring reads only
\* card.value, so one suit stands for the four
ScoreHands ==
    UNION {[1..n -> {[value |-> VALUES[i], suit |-> SUITS[1]] : i \in DOMAIN VALUES}] :
              n \in 0..MaxLen}

ScoreInit ==
    /\ gameState = InitialGameState
    /\ players = <<>>
    /\ history = <<>>
    /\ pendingDeal = NoDeal
    /\ pendingDiscard = NoDiscard
    /\ toast = NoToast
    /\ used = [starts |-> 0, resets |-> 0]
    /\ scoreIn \in ScoreHands
    /\ scoreOut = NoScore
    /\ remote = NoRemote

\* a call of calculateHandScore under each choice
scoreHand ==
    /\ scoreOut = NoScore
    /\ scoreOut' = [by |-> "calculateHandScore",
                    min |-> calculateHandScore(scoreIn, "min"),
                    max |-> calculateHandScore(scoreIn, "max")]
    /\ UNCHANGED <<remote, gameState, players, history, pendingDeal, pendingDiscard,
                   toast, used, scoreIn>>

\* a call of variant 2's computeFinalScoreFromHandArray under each choice
scoreHandArray ==
    /\ scoreOut = NoScore
    /\ scoreOut' = [by |-> "computeFinalScoreFromHandArray",
                    min |-> computeFinalScoreFromHandArray(scoreIn, "min"),
                    max |-> computeFinalScoreFromHandArray(scoreIn, "max")]
    /\ UNCHANGED <<remote, gameState, players, history, pendingDeal, pendingDiscard,
                   toast, used, scoreIn>>

ScoreNext == scoreHand \/ scoreHandArray

ScoreSpec == ScoreInit /\ [][ScoreNext]_vars

\* how many Aces a hand holds
Aces(hand) == Cardinality({i \in DOMAIN hand : hand[i].value = "A"})

\* C8: for every hand calculateHandScore under min is at most the score under
\* max, the two are equal exactly when the hand holds no Ace, and they differ
\* by 10 for each Ace.
C8_MinAtMostMax ==
    scoreOut.by = "calculateHandScore" =>
        /\ scoreOut.min <= scoreOut.max
        /\ (scoreOut.min = scoreOut.max) <=> (Aces(scoreIn) = 0)
        /\ scoreOut.max - scoreOut.min = 10 * Aces(scoreIn)

\* a hand with two Aces was scored: the two results are 20 apart
C8_Witness ==
    /\ scoreOut.by = "calculateHandScore"
    /\ Aces(scoreIn) = 2
    /\ Len(scoreIn) = 3
    /\ scoreOut.max = scoreOut.min + 20

\* the points of a card as a function of its rank 1..13 in VALUES: the rank for
\* 2..10, 10 above, and 1 or 11 for rank 1
RankPoints(rank, choice) ==
    IF rank = 1 THEN (IF choice = "min" THEN 1 ELSE 11)
    ELSE IF rank > 10 THEN 10 ELSE rank

RankOf(v) == CHOOSE i \in DOMAIN VALUES : VALUES[i] = v

RECURSIVE SumPoints(_, _, _)
SumPoints(hand, choice, n) ==
    IF n = 0 THEN 0
    ELSE SumPoints(hand, choice, n - 1) + RankPoints(RankOf(hand[n].value), choice)

\* C9: calculateHandScore, and variant 2's computeFinalScoreFromHandArray,
\* return the sum of the cards' points: the face value for 2..10, 10 for J, Q
\* and K, 1 for an Ace under min and 11 under max; the empty hand scores 0 and
\* [A, K, 7] scores 18 under min and 28 under max.
C9_ScoreIsSumOfPoints ==
    scoreOut.by # "" =>
        /\ scoreOut.min = SumPoints(scoreIn, "min", Len(scoreIn))
        /\ scoreOut.max = SumPoints(scoreIn, "max", Len(scoreIn))
        /\ scoreIn = <<>> => scoreOut.min = 0 /\ scoreOut.max = 0
        /\ [i \in DOMAIN scoreIn |-> scoreIn[i].value] = <<"A", "K", "7">> =>
               scoreOut.min = 18 /\ scoreOut.max = 28

\* [A, K, 7] was scored by calculateHandScore: 18 and 28
C9_Witness ==
    /\ scoreOut.by = "calculateHandScore"
    /\ [i \in DOMAIN scoreIn |-> scoreIn[i].value] = <<"A", "K", "7">>
    /\ scoreOut.min = 18
    /\ scoreOut.max = 28

----------------------------------------------------------------------------
(* DiscardSpec: the discard functions on every pair of hands of up to MaxLen
   cards and every table of up to MaxTable cards *)

\* the cards of the drawn hands: two of one value, in two suits, and one of
\* another value
DiscardCards == {[value |-> "5", suit |-> "H"], [value |-> "5", suit |-> "D"],
                 [value |-> "9", suit |-> "H"]}
DiscardHands == UNION {[1..n -> DiscardCards] : n \in 0..MaxLen}
\* the tables: revealNextCard puts every value on the table at most once
DiscardTables ==
    {t \in UNION {[1..n -> {[value |-> v, suit |-> "H"] : v \in {"5", "9", "K"}}] :
                     n \in 0..MaxTable} :
        \A i, j \in DOMAIN t : i # j => t[i].value # t[j].value}

DiscardInit ==
    /\ \E t \in DiscardTables :
          gameState = [InitialGameState EXCEPT
                          !.phase = "betting", !.revealedCards = t,
                          !.handSize = MaxLen]
    /\ \E h1 \in DiscardHands, h2 \in DiscardHands :
          players = [id \in {PlayerIds[1], PlayerIds[2]} |->
              IF id = PlayerIds[1]
              THEN [NewPlayer("diro", 25, TRUE, FALSE, 0) EXCEPT !.hand = h1]
              ELSE [NewPlayer("ann", 25, FALSE, FALSE, 1) EXCEPT !.hand = h2]]
    /\ history = <<>>
    /\ pendingDeal = NoDeal
    /\ pendingDiscard = NoDiscard
    /\ toast = NoToast
    /\ used = [starts |-> 1, resets |-> 0]
    /\ scoreIn \in {players[PlayerIds[1]].hand}
    /\ scoreOut = NoScore
    /\ remote = NoRemote

\* applySilentDiscard called from a render that holds the stored state
silentDiscard ==
    /\ players' = applySilentDiscard(players, gameState.revealedCards, players)
    /\ scoreOut' = [NoScore EXCEPT !.by = "applySilentDiscard"]
    /\ UNCHANGED <<remote, gameState, history, pendingDeal, pendingDiscard, toast, used,
                   scoreIn>>

\* variant 2's discardMatchingCardsAgainstTable
tableDiscard ==
    /\ players' = discardMatchingCardsAgainstTable(players, gameState.revealedCards)
    /\ scoreOut' = [NoScore EXCEPT !.by = "discardMatchingCardsAgainstTable"]
    /\ UNCHANGED <<remote, gameState, history, pendingDeal, pendingDiscard, toast, used,
                   scoreIn>>

\* getFilteredHand applied to the hand held in scoreIn
filterHand ==
    /\ scoreIn' = getFilteredHand(scoreIn, gameState.revealedCards)
    /\ scoreOut' = [NoScore EXCEPT !.by = "getFilteredHand"]
    /\ UNCHANGED <<remote, gameState, players, history, pendingDeal, pendingDiscard,
                   toast, used>>

DiscardNext == silentDiscard \/ tableDiscard \/ filterHand

DiscardSpec == DiscardInit /\ [][DiscardNext]_vars

\* the values on the table, and the value of the card revealed last
RevealedValues == {gameState.revealedCards[i].value :
                      i \in DOMAIN gameState.revealedCards}
LastRevealedValues ==
    IF gameState.revealedCards = <<>> THEN {}
    ELSE {gameState.revealedCards[Len(gameState.revealedCards)].value}

\* after is before without the cards whose value is in vals, the others kept
\* in their order
IsRemovalOf(after, before, vals) ==
    LET keep == {i \in DOMAIN before : before[i].value \notin vals}
    IN  /\ Len(after) = Cardinality(keep)
        /\ \A k \in DOMAIN after :
               after[k] = before[CHOOSE i \in keep :
                                    Cardinality({j \in keep : j <= i}) = k]

\* C6: a discard for the revealed value v removes every card of value v from
\* every player's hand and no card of another value: applySilentDiscard for
\* the value revealed last, discardMatchingCardsAgainstTable for every value
\* on the table.
C6_MultiDiscard ==
    [][/\ scoreOut'.by = "applySilentDiscard" =>
             \A id \in DOMAIN players :
                IsRemovalOf(players'[id].hand, players[id].hand, LastRevealedValues)
       /\ scoreOut'.by = "discardMatchingCardsAgainstTable" =>
             \A id \in DOMAIN players :
                IsRemovalOf(players'[id].hand, players[id].hand, RevealedValues)]_vars

\* applySilentDiscard has turned a hand that held two 5s and a 9 into [9]:
\* both 5s are in discardedCards
C6_Witness ==
    /\ scoreOut.by = "applySilentDiscard"
    /\ LastRevealedValues = {"5"}
    /\ \E id \in DOMAIN players :
          /\ players[id].hand = <<[value |-> "9", suit |-> "H"]>>
          /\ players[id].discardedCards =
                 <<[value |-> "5", suit |-> "H"], [value |-> "5", suit |-> "D"]>>

\* C7: a discard function applied a second time in a row, for the same
\* revealed cards, leaves every hand and every discardedCards list as the
\* first application left them.
C7_DiscardIdempotent ==
    [][scoreOut.by # "" /\ scoreOut'.by = scoreOut.by =>
           players' = players /\ scoreIn' = scoreIn]_vars

\* a discard that removed cards has been applied: applying it again is
\* enabled from this state and leaves it as it is
C7_Witness ==
    /\ scoreOut.by = "applySilentDiscard"
    /\ \E id \in DOMAIN players : Len(players[id].discardedCards) = 2
    /\ applySilentDiscard(players, gameState.revealedCards, players) = players

----------------------------------------------------------------------------
(* SettleSpec: calculateWinners on every table of three players in phase
   final *)

\* the scores the players of SettleSpec hold: the one-card hands [3] and [7]
SettleScores == {3, 7}
\* what each player of SettleSpec has bet in the round, in cents
SettleBets == {0, 10}

\* a player of SettleSpec: no declaration yet, or a choice with the score of
\* the hand; folded or not; balance and totalBetThisHand after the bet
SettlePlayers(name, admin, pos) ==
    {[NewPlayer(name, b - bet, admin, FALSE, pos) EXCEPT
         !.hand = <<[value |-> VALUES[sc], suit |-> "H"]>>,
         !.choice = ch,
         !.finalScore = IF ch = "" THEN NullScore ELSE sc,
         !.folded = f,
         !.hasActed = TRUE,
         !.totalBetThisHand = bet] :
       b \in Budgets, bet \in SettleBets, sc \in SettleScores,
       ch \in {"", "min", "max"}, f \in BOOLEAN}

SettleInit ==
    /\ \E r1 \in SettlePlayers("diro", TRUE, 0), r2 \in SettlePlayers("ann", FALSE, 1),
          r3 \in SettlePlayers("bea", FALSE, 2) :
          /\ players = [id \in Range(PlayerIds) |->
                 IF id = PlayerIds[1] THEN r1
                 ELSE IF id = PlayerIds[2] THEN r2 ELSE r3]
          /\ gameState = [InitialGameState EXCEPT
                 !.phase = "final",
                 !.pot = r1.totalBetThisHand + r2.totalBetThisHand
                           + r3.totalBetThisHand,
                 !.revealedCards = <<[value |-> "K", suit |-> "H"],
                                     [value |-> "Q", suit |-> "H"]>>,
                 !.totalCards = 2,
                 !.handSize = 1]
    /\ history = <<>>
    /\ pendingDeal = NoDeal
    /\ pendingDiscard = NoDiscard
    /\ toast = NoToast
    /\ used = [starts |-> 1, resets |-> 0]
    /\ scoreIn = <<>>
    /\ scoreOut = NoScore
    /\ remote = NoRemote

SettleNext ==
    \/ calculateWinners("")
    \/ \E w \in DOMAIN players : calculateWinners(w)
    \/ \E me \in DOMAIN players : handleNextHand(me)

SettleSpec == SettleInit /\ [][SettleNext]_vars

\* a step of calculateWinners without a special winner: it alone moves the
\* table from phase final to phase results
NormalSettlementStep ==
    /\ gameState.phase = "final"
    /\ gameState'.phase = "results"
    /\ \A i \in DOMAIN history'[Len(history')].winners :
          history'[Len(history')].winners[i].tag # "LAS VEGAS"

\* the non-folded players that declared cat
Group(cat) == {id \in DOMAIN players :
                  /\ ~players[id].folded
                  /\ players[id].finalScore # NullScore
                  /\ players[id].choice = cat}

\* the players of the group at its lowest (min) or highest (max) score
GroupBest(cat) ==
    {id \in Group(cat) : \A o \in Group(cat) :
        IF cat = "min" THEN players[id].finalScore <= players[o].finalScore
        ELSE players[id].finalScore >= players[o].finalScore}

\* amount is total / parts rounded to the cent
IsRoundedQuotient(amount, total, parts) ==
    /\ 2 * (amount * parts - total) <= parts
    /\ 2 * (total - amount * parts) <= parts

\* C3: a normal settlement gives each of the groups min and max half the pot
\* when both have players and the whole pot to the only group otherwise;
\* exactly the players at the group's lowest (min) or highest (max) score are
\* credited, each with the group's share divided by their number and rounded
\* to the cent; no other balance changes.
C3_NormalSettlementSplit ==
    [][NormalSettlementStep =>
          LET halves == IF Group("min") # {} /\ Group("max") # {} THEN 2 ELSE 1
          IN  \A id \in DOMAIN players :
                 IF \E cat \in {"min", "max"} : id \in GroupBest(cat)
                 THEN IsRoundedQuotient(
                          players'[id].balance - players[id].balance,
                          gameState.pot,
                          halves * Cardinality(GroupBest(players[id].choice)))
                 ELSE players'[id].balance = players[id].balance]_vars

\* a settled table on which two players tied in one group and the third won
\* the other group: of a pot of 0.10 the tied ones got 0.03 each (0.025
\* rounded), the third 0.05
C3_Witness ==
    /\ gameState.phase = "results"
    /\ gameState.pot = 10
    /\ Len(history) = 1
    /\ Len(history[1].winners) = 3
    /\ history[1].winners[1].tag = "min"
    /\ history[1].winners[2].tag = "min"
    /\ history[1].winners[3].tag = "max"
    /\ history[1].winners[1].amount = 3
    /\ history[1].winners[2].amount = 3
    /\ history[1].winners[3].amount = 5

\* C17: a normal settlement invoked when no non-folded player holds both a
\* choice and a finalScore aborts: the phase stays final, no balance changes
\* and no history record is appended.
C17_SettlementAbortsWithoutDeclarations ==
    [][(calculateWinners("") /\ Group("min") \cup Group("max") = {}) =>
          /\ gameState'.phase = "final"
          /\ gameState' = gameState
          /\ \A id \in DOMAIN players : players'[id].balance = players[id].balance
          /\ history' = history
          /\ toast' = MkToast("calculateWinners", "Nessun vincitore")]_vars

\* the settlement was refused on a table with money in the pot whose only
\* declared player had folded
C17_Witness ==
    /\ toast = MkToast("calculateWinners", "Nessun vincitore")
    /\ gameState.phase = "final"
    /\ gameState.pot = 20
    /\ history = <<>>
    /\ \E id \in DOMAIN players : players[id].folded /\ players[id].choice = "max"
    /\ \A id \in DOMAIN players : players[id].choice # "" => players[id].folded

\* a step of calculateWinners(w): the record it appends names w as the
\* LAS VEGAS winner
JackpotStep(w) ==
    /\ Len(history') = Len(history) + 1
    /\ history'[Len(history')].winners[1].id = w
    /\ history'[Len(history')].winners[1].tag = "LAS VEGAS"

\* C18: calculateWinners(specialWinnerId) for an existing player adds exactly
\* the pot to that player's balance, changes no other balance and no choice
\* or finalScore, whatever the players declared, and moves the phase to
\* results.
C18_JackpotOverride ==
    [][\A w \in DOMAIN players : JackpotStep(w) =>
          /\ players'[w].balance = players[w].balance + gameState.pot
          /\ \A o \in DOMAIN players \ {w} :
                 players'[o].balance = players[o].balance
          /\ \A o \in DOMAIN players :
                 /\ players'[o].choice = players[o].choice
                 /\ players'[o].finalScore = players[o].finalScore
          /\ gameState'.phase = "results"]_vars

\* the pot of 0.30 went to a folded player without a declaration while
\* another player had declared: 0.15 left after the bet, 0.45 after the award
C18_Witness ==
    /\ gameState.phase = "results"
    /\ Len(history) = 1
    /\ history[1].pot = 30
    /\ history[1].winners[1].tag = "LAS VEGAS"
    /\ LET w == history[1].winners[1].id
       IN  /\ players[w].folded
           /\ players[w].choice = ""
           /\ players[w].balance = 45
           /\ \E o \in DOMAIN players \ {w} :
                  players[o].choice = "min" /\ ~players[o].folded
                     /\ players[o].balance = 15

\* a step of calculateWinners that settles: it alone moves the table to phase
\* results
SettlementStep == gameState.phase # "results" /\ gameState'.phase = "results"

\* C4: after every settlement by calculateWinners, normal or with a special
\* winner, a record has been appended to the history and the pot is 0.
C4_SettlementRecordsAndEmptiesPot ==
    [][SettlementStep =>
          /\ Len(history') = Len(history) + 1
          /\ history'[Len(history')].pot = gameState.pot
          /\ gameState'.pot = 0]_vars

\* a settled table whose pot still holds the money that was paid out
C4_PotKeptAfterSettlement ==
    /\ gameState.phase = "results"
    /\ Len(history) = 1
    /\ history[1].pot > 0
    /\ gameState.pot = history[1].pot

----------------------------------------------------------------------------
(* TableSpec: the handlers of the betting panel called on a table in any
   phase, with the gate set or clear, by the admin and by the other player *)

TablePhases == {"lobby", "betting", "revealing", "final", "results"}
\* what a player of TableSpec has bet in the segment, in cents
TableBets == {0, DefaultMinBet}

\* a player of TableSpec: dealt the k-th hand of the unshuffled deck, folded
\* or not, having bet in the round or not
TablePlayers(name, admin, pos) ==
    {[NewPlayer(name, b - bet, admin, FALSE, pos) EXCEPT
         !.hand = DealtHand(buildDeck, pos + 1, 2),
         !.folded = f,
         !.hasActed = f \/ bet > 0,
         !.lastBet = bet,
         !.totalBetThisHand = bet] :
       b \in Budgets, bet \in TableBets, f \in BOOLEAN}

\* the states in which the last write of the round cleared the segment: the
\* last reveal (phase final), and startGame, resetHand or a reveal's timer,
\* which set the gate
SegmentCleared(ph, gate) == ph = "final" \/ (gate /\ ph # "lobby")

\* the table of TableSpec in phase ph.  The lobby is the one of a new game
\* (gate clear) or the one handleNextHand leaves (gate set, pot 0).
TableState(ph, gate, turn, r1, r2) ==
    [InitialGameState EXCEPT
        !.phase = ph,
        !.waitingForDealer = gate,
        !.currentPlayerTurn = turn,
        !.pot = IF ph = "lobby" THEN 0
                ELSE r1.totalBetThisHand + r2.totalBetThisHand,
        !.currentBet = IF ph = "lobby" \/ SegmentCleared(ph, gate) THEN 0
                       ELSE Max2(r1.lastBet, r2.lastBet),
        !.revealedCards = IF ph = "final"
                          THEN <<[value |-> "3", suit |-> "H"],
                                 [value |-> "4", suit |-> "H"]>>
                          ELSE <<>>,
        !.totalCards = 2,
        !.handSize = 2]

TableInit ==
    /\ \E r1 \in TablePlayers("diro", TRUE, 0), r2 \in TablePlayers("ann", FALSE, 1),
          ph \in TablePhases, gate \in BOOLEAN,
          turn \in {"", PlayerIds[1], PlayerIds[2]} :
          /\ gate => ph \in {"lobby", "betting", "results"}
          /\ (gate \/ ph \in {"lobby", "final"}) => turn = ""
          /\ (ph = "lobby" /\ ~gate) =>
                 r1.totalBetThisHand = 0 /\ r2.totalBetThisHand = 0
                    /\ ~r1.folded /\ ~r2.folded
          /\ players = [id \in {PlayerIds[1], PlayerIds[2]} |->
                 LET r == IF id = PlayerIds[1] THEN r1 ELSE r2
                 IN  IF SegmentCleared(ph, gate)
                     THEN [r EXCEPT !.lastBet = 0, !.hasActed = FALSE]
                     ELSE r]
          /\ gameState = TableState(ph, gate, turn, r1, r2)
    /\ history = <<>>
    /\ pendingDeal = NoDeal
    /\ pendingDiscard = NoDiscard
    /\ toast = NoToast
    /\ used = [starts |-> 0, resets |-> 0]
    /\ scoreIn = <<>>
    /\ scoreOut = NoScore
    /\ remote = NoRemote

\* TableSpec has the admin start a round from the lobby of a new game, in
\* which nobody has bet or folded yet
NewLobby ==
    /\ gameState.phase = "lobby"
    /\ ~gameState.waitingForDealer
    /\ \A id \in DOMAIN players :
          /\ players[id].totalBetThisHand = 0
          /\ ~players[id].folded
          /\ ~players[id].hasActed

\* TableSpec has the timers of startGame (500 ms) and of revealNextCard
\* (100 ms) run out before the next call of a handler
TimersDone == ~pendingDeal.active /\ ~pendingDiscard.active

TableNext ==
    \/ \E me \in DOMAIN players, a \in BetAmounts :
          TimersDone /\ handleBet(me, a)
    \/ \E me \in DOMAIN players : TimersDone /\ handleCheck(me)
    \/ \E me \in DOMAIN players : TimersDone /\ handleFold(me)
    \/ \E me \in DOMAIN players, id \in DOMAIN players :
          TimersDone /\ setManualDealer(me, id)
    \/ \E me \in DOMAIN players : TimersDone /\ confirmDealerAndContinue(me)
    \/ TimersDone /\ adminEffectBetting
    \/ TimersDone /\ revealNextCard
    \/ discardTimer
    \/ \E me \in DOMAIN players : TimersDone /\ resetHand(me)
    \/ \E me \in DOMAIN players, n \in TotalCardsOptions :
          TimersDone /\ NewLobby /\ startGame(me, n)
    \/ dealHands

TableSpec == TableInit /\ [][TableNext]_vars

\* the step is a call of handleBet, handleCheck or handleFold by me
PanelCall(me) ==
    \/ \E a \in BetAmounts : handleBet(me, a)
    \/ handleCheck(me)
    \/ handleFold(me)

\* C12: a call of handleBet, handleCheck or handleFold by a client that is not
\* the admin, made while currentPlayerTurn is not that client's player,
\* changes nothing in the shared state.
C12_OffTurnCallRejected ==
    [][\A me \in DOMAIN players :
          (/\ ~players[me].isAdmin
           /\ gameState.currentPlayerTurn # me
           /\ PanelCall(me)) => UNCHANGED shared /\ toast' # NoToast]_vars

\* with the gate clear and the turn with the admin, who has bet nothing, the
\* other player's fold was refused: she is still in
C12_Witness ==
    /\ toast = MkToast("handleFold", "Non e il tuo turno")
    /\ gameState.phase = "betting"
    /\ ~gameState.waitingForDealer
    /\ gameState.currentPlayerTurn \in DOMAIN players
    /\ players[gameState.currentPlayerTurn].isAdmin
    /\ \E id \in DOMAIN players : ~players[id].isAdmin /\ ~players[id].folded

\* a step that ends startGame, resetHand or a reveal that was not the last
GateSettingStep ==
    \/ used'.starts > used.starts
    \/ used'.resets > used.resets
    \/ pendingDiscard.active /\ ~pendingDiscard'.active

\* C13: startGame, resetHand and every reveal but the last leave the table
\* with waitingForDealer set; while it is set a call of handleBet, handleCheck
\* or handleFold by anyone, the admin included, changes nothing, the table
\* does not move to phase revealing or final, no card is revealed and nobody
\* is given the turn; the gate
\* is cleared only by confirmDealerAndContinue, which needs a player whose
\* position is dealerIndex, gives that player the turn and changes nothing
\* else.
C13_DealerGate ==
    [][/\ GateSettingStep => gameState'.waitingForDealer
       /\ gameState.waitingForDealer =>
             /\ \A me \in DOMAIN players :
                    PanelCall(me) => UNCHANGED shared /\ toast'.title = "Azione bloccata"
             /\ gameState'.phase \in {"revealing", "final"} =>
                    gameState'.phase = gameState.phase
             /\ gameState'.revealedCards \in {gameState.revealedCards, <<>>}
             /\ gameState'.waitingForDealer =>
                    gameState'.currentPlayerTurn \in {gameState.currentPlayerTurn, ""}
       /\ (gameState.waitingForDealer /\ ~gameState'.waitingForDealer) =>
             /\ gameState'.currentPlayerTurn \in DOMAIN players
             /\ players[gameState'.currentPlayerTurn].position = gameState.dealerIndex
             /\ gameState' = [gameState EXCEPT
                    !.waitingForDealer = FALSE,
                    !.currentPlayerTurn = gameState'.currentPlayerTurn]
             /\ players' = players
             /\ history' = history]_vars

\* after a reveal the gate is set, the second player was made dealer, and the
\* admin's bet was refused because of the gate
C13_Witness ==
    /\ gameState.waitingForDealer
    /\ gameState.phase = "betting"
    /\ Len(gameState.revealedCards) = 1
    /\ gameState.dealerIndex = 1
    /\ toast = MkToast("handleBet", "Azione bloccata")

\* C14: in the phases lobby, revealing, final and results a call of handleBet,
\* handleCheck or handleFold by anyone, the admin included, leaves the pot,
\* currentBet, currentPlayerTurn and every player's fields unchanged.
C14_PanelOnlyInBetting ==
    [][\A me \in DOMAIN players :
          (gameState.phase # "betting" /\ PanelCall(me)) =>
              /\ gameState'.pot = gameState.pot
              /\ gameState'.currentBet = gameState.currentBet
              /\ gameState'.currentPlayerTurn = gameState.currentPlayerTurn
              /\ players' = players]_vars

\* a table in phase final, where the last reveal had set currentBet to 0,
\* on which the admin has since bet 0.10
C14_BetTakenInFinal ==
    /\ gameState.phase = "final"
    /\ Len(gameState.revealedCards) = gameState.totalCards
    /\ gameState.currentBet = 10
    /\ \E id \in DOMAIN players :
          players[id].isAdmin /\ players[id].lastBet = 10 /\ players[id].hasActed

----------------------------------------------------------------------------
(* RevealSpec: reveals on tables that already show up to every table value.
   The table keeps the default of DefaultTotalCards cards, more than there
   are table values, so that the values run out before the last reveal. *)

TableCards == {[value |-> v, suit |-> st] : v \in TableValues, st \in TableSuits}

\* the tables revealNextCard can have built before the last reveal: no value
\* twice
RevealTables ==
    {t \in UNION {[1..n -> TableCards] :
                     n \in 0..Min2(TableValueCount, DefaultTotalCards - 1)} :
        \A i, j \in DOMAIN t : t[i].value = t[j].value => i = j}

\* the players after the timers of the reveals of the table: each timer ran
\* applySilentDiscard on the table as it was before its reveal
RECURSIVE DiscardedFor(_, _, _)
DiscardedFor(ps, table, n) ==
    IF n <= 1 THEN ps
    ELSE LET before == DiscardedFor(ps, table, n - 1)
         IN  applySilentDiscard(before, SubSeq(table, 1, n - 1), before)

RevealInit ==
    /\ \E r1 \in TablePlayers("diro", TRUE, 0), r2 \in TablePlayers("ann", FALSE, 1),
          table \in RevealTables :
          /\ players = DiscardedFor(
                 [id \in {PlayerIds[1], PlayerIds[2]} |->
                     IF id = PlayerIds[1] THEN r1 ELSE r2],
                 table, Len(table))
          /\ gameState = [TableState("betting", FALSE, PlayerIds[1], r1, r2) EXCEPT
                 !.revealedCards = table,
                 !.totalCards = DefaultTotalCards]
    /\ history = <<>>
    /\ pendingDeal = NoDeal
    /\ pendingDiscard = NoDiscard
    /\ toast = NoToast
    /\ used = [starts |-> 0, resets |-> 0]
    /\ scoreIn = <<>>
    /\ scoreOut = NoScore
    /\ remote = NoRemote

RevealNext ==
    \/ revealNextCard
    \/ discardTimer
    \/ \E me \in DOMAIN players : confirmDealerAndContinue(me)

RevealSpec == RevealInit /\ [][RevealNext]_vars

\* C16: revealedCards never holds two cards of the same value; a call of
\* revealNextCard appends one card whose value was not on the table, and
\* appends nothing when every value is on the table.
C16_UniqueTableValues ==
    /\ [](\A i, j \in DOMAIN gameState.revealedCards :
            gameState.revealedCards[i].value = gameState.revealedCards[j].value
               => i = j)
    /\ [][revealNextCard =>
            IF RevealedValues = TableValues
            THEN gameState' = gameState /\ players' = players
            ELSE /\ Len(gameState'.revealedCards) = Len(gameState.revealedCards) + 1
                 /\ SubSeq(gameState'.revealedCards, 1, Len(gameState.revealedCards))
                       = gameState.revealedCards
                 /\ gameState'.revealedCards[Len(gameState'.revealedCards)].value
                       \notin RevealedValues]_vars

\* every table value is on the table, the gate was cleared after the last
\* reveal, and a further reveal was refused
C16_Witness ==
    /\ RevealedValues = TableValues
    /\ Len(gameState.revealedCards) = TableValueCount
    /\ ~gameState.waitingForDealer
    /\ gameState.phase = "betting"
    /\ toast = MkToast("revealNextCard", "Errore")

----------------------------------------------------------------------------
(* The specification *)

\* Spec follows a round that resetHand restarted through the dealer gate, up
\* to its first bet
BeforeReset == used.resets = 0
\* Spec has the admin press LAS VEGAS before the first card is on the table
JackpotWindow == gameState.phase = "betting" /\ gameState.revealedCards = <<>>

Next ==
    \/ \E n \in JoinNames, b \in Budgets : joinGame(n, b)
    \/ \E b \in Budgets : handleAdminLogin(b)
    \/ \E me \in DOMAIN players : handleAddBot(me)
    \/ \E me \in DOMAIN players, n \in HandSizes : setHandSize(me, n)
    \/ \E me \in DOMAIN players, n \in TotalCardsOptions : startGame(me, n)
    \/ dealHands
    \/ \E me \in DOMAIN players, id \in DOMAIN players : setManualDealer(me, id)
    \/ \E me \in DOMAIN players : confirmDealerAndContinue(me)
    \/ \E me \in DOMAIN players, a \in BetAmounts :
          BettingPanel(me) /\ PanelInRound /\ handleBet(me, a)
    \/ \E me \in DOMAIN players :
          BettingPanel(me) /\ CheckButton(me) /\ PanelInRound /\ handleCheck(me)
    \/ \E me \in DOMAIN players : BettingPanel(me) /\ PanelInRound /\ handleFold(me)
    \/ BeforeReset /\ botAction
    \/ adminEffectBetting
    \/ BeforeReset /\ revealNextCard
    \/ discardTimer
    \/ \E me \in DOMAIN players, c \in {"min", "max"}, s \in DeclaredScores :
          submitFinal(me, c, s)
    \/ botsDeclare
    \/ settleTimer
    \/ calculateWinners("")
    \/ \E w \in DOMAIN players : JackpotWindow /\ calculateWinners(w)
    \/ \E me \in DOMAIN players : handleNextHand(me)
    \/ \E me \in DOMAIN players : resetHand(me)

Spec == Init /\ [][Next]_vars

----------------------------------------------------------------------------
(* Properties of Spec *)

\* the score submitFinal compares a declaration of id with
CorrectScore(id, choice) ==
    calculateHandScore(getFilteredHand(players[id].hand, gameState.revealedCards),
                       choice)

\* C1: submitFinal writes the caller's choice and finalScore only when the
\* declared score equals calculateHandScore of the caller's hand, filtered
\* against revealedCards, under that choice; a declaration that differs, even
\* by 1, ends in the error toast and changes no field of the shared state.
C1_SubmitFinalOnlyOnMatch ==
    [][/\ \A id \in DOMAIN players :
             (~players[id].isBot /\ players[id].choice = ""
                /\ players'[id].choice # "") =>
                 players'[id].finalScore = CorrectScore(id, players'[id].choice)
       /\ toast'.op = "submitFinal" => UNCHANGED shared]_vars

\* one player has declared max with the score 11 of a hand with an Ace, and
\* the declaration of another was rejected and left them without a choice
C1_Witness ==
    /\ gameState.phase = "final"
    /\ toast = MkToast("submitFinal", "Errore di dichiarazione")
    /\ \E id \in Humans : players[id].choice = "max" /\ players[id].finalScore = 11
    /\ \E id \in Humans : players[id].choice = "" /\ players[id].finalScore = NullScore

\* a step inside one betting segment: no reveal (with its timer), no reset and
\* no round start
SegmentStep ==
    /\ gameState.phase = "betting"
    /\ gameState'.phase = "betting"
    /\ gameState'.revealedCards = gameState.revealedCards
    /\ pendingDiscard' = pendingDiscard
    /\ used' = used

\* C2: inside a betting segment a handleBet below the current bet X > 0 ends
\* in the error toast without changing the shared state, and currentBet never
\* decreases.
C2_BettingMonotonic ==
    [][/\ toast' = MkToast("handleBet", "Puntata non valida") => UNCHANGED shared
       /\ SegmentStep => gameState'.currentBet >= gameState.currentBet]_vars

\* with the current bet at 0.20 a bet of less was rejected
C2_Witness ==
    /\ gameState.phase = "betting"
    /\ gameState.currentBet = 20
    /\ toast = MkToast("handleBet", "Puntata non valida")

\* C5: resetHand, from any state, adds to every player's balance that
\* player's totalBetThisHand, folded players included, and sets every
\* totalBetThisHand and the pot to 0.
C5_ResetRefunds ==
    [][used'.resets > used.resets =>
          /\ gameState'.pot = 0
          /\ \A id \in DOMAIN players :
                /\ players'[id].balance =
                       players[id].balance + players[id].totalBetThisHand
                /\ players'[id].totalBetThisHand = 0]_vars

\* resetHand has run on a table with a folded player who had bet: the state
\* before it is kept by the pending discard timer's closure
C5_Witness ==
    /\ used.resets = 1
    /\ gameState.pot = 0
    /\ pendingDiscard.active
    /\ \E id \in DOMAIN players :
          /\ pendingDiscard.players[id].folded
          /\ pendingDiscard.players[id].totalBetThisHand = 20
          /\ pendingDiscard.players[id].balance = 5
          /\ players[id].balance = 25
          /\ players[id].totalBetThisHand = 0

\* C10: a handleBet whose differential, the bet minus the player's lastBet,
\* exceeds the player's balance ends in the error toast and changes no player
\* and no table field: a bet that is applied never costs more than the
\* balance.
C10_UnaffordableBetRejected ==
    [][/\ toast' = MkToast("handleBet", "Saldo insufficiente") => UNCHANGED shared
       /\ \A id \in DOMAIN players :
             (~players[id].isBot /\ players'[id].lastBet > players[id].lastBet) =>
                 players'[id].lastBet - players[id].lastBet <= players[id].balance]_vars

\* a player left with 0.05 after a bet of 0.20 had a further bet rejected for
\* lack of funds
C10_Witness ==
    /\ toast = MkToast("handleBet", "Saldo insufficiente")
    /\ \E id \in Humans : players[id].balance = 5 /\ players[id].totalBetThisHand = 20

\* the players in the turn order: not folded, with money left
Active == {id \in DOMAIN players : ~players[id].folded /\ players[id].balance > 0}

\* a comes before b in the turn order: by position, then by key
Precedes(a, b) ==
    \/ players[a].position < players[b].position
    \/ players[a].position = players[b].position /\ KeyIndex(a) < KeyIndex(b)

FirstOf(S) == CHOOSE id \in S : \A o \in S \ {id} : Precedes(id, o)

\* the player the turn advances to: the next one in the turn order after the
\* holder of the turn, around the table; nobody ("") when at most one player is
\* in the order
TurnAfter ==
    LET cur == gameState.currentPlayerTurn
        later == {id \in Active : cur \in Active /\ Precedes(cur, id)}
    IN  IF Cardinality(Active) <= 1 THEN ""
        ELSE IF later # {} THEN FirstOf(later)
        ELSE FirstOf(Active)

\* C11: handleCheck goes through only when the caller's lastBet equals the
\* table's currentBet: it then sets the caller's hasActed and advances the
\* turn, and leaves every balance and lastBet, the pot and currentBet as they
\* are; a check by a caller who owes a bet ends in the error toast and changes
\* nothing.
C11_CheckOnlyWhenLevel ==
    [][\A me \in DOMAIN players : handleCheck(me) =>
          /\ players[me].lastBet # gameState.currentBet =>
                 UNCHANGED shared /\ toast'.op = "handleCheck"
          /\ toast' = NoToast =>
                 /\ players[me].lastBet = gameState.currentBet
                 /\ players' = [players EXCEPT ![me].hasActed = TRUE]
                 /\ gameState' = [gameState EXCEPT !.currentPlayerTurn = TurnAfter]
                 /\ history' = history]_vars

\* the admin, who owes the 0.10 the other player has bet, had a check refused
C11_Witness ==
    /\ gameState.phase = "betting"
    /\ toast = MkToast("handleCheck", "Check non consentito")
    /\ gameState.currentBet = 10
    /\ gameState.pot = 10
    /\ \E id \in Humans :
          players[id].isAdmin /\ ~players[id].hasActed /\ players[id].lastBet = 0
             /\ players[id].balance = 25 /\ ~players[id].folded

\* a step of the admin effect from betting to revealing
RevealingStep == gameState.phase = "betting" /\ gameState'.phase = "revealing"

\* the betting segment is settled: the gate is clear, somebody is still in,
\* and every player still in has acted and is level with the current bet
SegmentSettled ==
    /\ ~gameState.waitingForDealer
    /\ \E id \in DOMAIN players : ~players[id].folded
    /\ \A id \in DOMAIN players :
          ~players[id].folded =>
              players[id].hasActed /\ players[id].lastBet = gameState.currentBet

\* C15: the transition from betting to revealing is taken only from a state
\* in which the segment is settled, and in every betting state in which the
\* segment is settled the admin effect is ready to take it.
C15_RevealingWhenSettled ==
    /\ [](gameState.phase = "betting" /\ SegmentSettled =>
             ENABLED (adminEffectBetting /\ gameState'.phase = "revealing"))
    /\ [][RevealingStep => SegmentSettled]_vars

\* the table is in phase revealing after a raise that the other player called
C15_Witness ==
    /\ gameState.phase = "revealing"
    /\ gameState.currentBet = 20
    /\ gameState.pot = 40
    /\ \A id \in DOMAIN players :
          players[id].hasActed /\ players[id].lastBet = 20 /\ ~players[id].folded

\* C19: a fold that goes through sets the caller's folded and hasActed,
\* advances the turn and changes nothing else: balance, totalBetThisHand and
\* the pot stay; and a normal settlement never changes the balance of a
\* folded player, whatever choice and finalScore they hold.
C19_FoldKeepsStakeAndIsNotPaid ==
    [][/\ \A me \in DOMAIN players : (handleFold(me) /\ toast' = NoToast) =>
             /\ players' = [players EXCEPT ![me].folded = TRUE,
                                            ![me].hasActed = TRUE]
             /\ gameState' = [gameState EXCEPT !.currentPlayerTurn = TurnAfter]
             /\ history' = history
       /\ NormalSettlementStep =>
             \A id \in DOMAIN players :
                players[id].folded => players'[id].balance = players[id].balance]_vars

\* a settled round in which a player who had bet 0.10, folded and then
\* declared max got nothing, and the whole pot went to the min winner
C19_Witness ==
    /\ gameState.phase = "results"
    /\ Len(history) = 1
    /\ Len(history[1].winners) = 1
    /\ history[1].winners[1].tag = "min"
    /\ history[1].winners[1].amount = history[1].pot
    /\ history[1].pot = 30
    /\ \E id \in DOMAIN players :
          /\ players[id].folded
          /\ players[id].choice = "max"
          /\ players[id].finalScore # NullScore
          /\ players[id].balance = 15

\* C20: in every state with phase betting and the gate clear,
\* currentPlayerTurn is empty or names a player who has not folded.
C20_TurnNeverOnFoldedPlayer ==
    (gameState.phase = "betting" /\ ~gameState.waitingForDealer) =>
        \/ gameState.currentPlayerTurn = ""
        \/ /\ gameState.currentPlayerTurn \in DOMAIN players
           /\ ~players[gameState.currentPlayerTurn].folded

\* in a later betting segment the dealer was confirmed and the turn is with
\* the dealer, who folded in the segment before
C20_FoldedDealerHoldsTurn ==
    /\ gameState.phase = "betting"
    /\ ~gameState.waitingForDealer
    /\ Len(gameState.revealedCards) = 1
    /\ gameState.currentPlayerTurn \in DOMAIN players
    /\ players[gameState.currentPlayerTurn].folded
    /\ ~players[gameState.currentPlayerTurn].isAdmin
    /\ players[gameState.currentPlayerTurn].position = gameState.dealerIndex
    /\ ~pendingDiscard.active
    /\ \A id \in DOMAIN players : ~players[id].hasActed

----------------------------------------------------------------------------
(* TurnSpec: getNextActivePlayerId on three players at any positions, folded
   or not, with or without money, the turn with nobody or with the first *)

TurnPositions == 0..2
TurnBalances == {0, 25}

TurnInit ==
    /\ \E pos \in [{PlayerIds[1], PlayerIds[2], PlayerIds[3]} -> TurnPositions],
          f \in [{PlayerIds[1], PlayerIds[2], PlayerIds[3]} -> BOOLEAN],
          b \in [{PlayerIds[1], PlayerIds[2], PlayerIds[3]} -> TurnBalances] :
          players = [id \in {PlayerIds[1], PlayerIds[2], PlayerIds[3]} |->
                        [NewPlayer(id, b[id], id = PlayerIds[1], FALSE, pos[id])
                            EXCEPT !.folded = f[id]]]
    /\ \E turn \in {"", PlayerIds[1]} :
          gameState = [InitialGameState EXCEPT
                          !.phase = "betting", !.currentPlayerTurn = turn]
    /\ history = <<>>
    /\ pendingDeal = NoDeal
    /\ pendingDiscard = NoDiscard
    /\ toast = NoToast
    /\ used = [starts |-> 0, resets |-> 0]
    /\ scoreIn = <<>>
    /\ scoreOut = NoScore
    /\ remote = NoRemote

\* a write of currentPlayerTurn: getNextActivePlayerId() || ""
passTurn ==
    /\ gameState' = [gameState EXCEPT !.currentPlayerTurn = getNextActivePlayerId]
    /\ UNCHANGED <<remote, players, history, pendingDeal, pendingDiscard, toast, used,
                   scoreIn, scoreOut>>

TurnNext == passTurn

TurnSpec == TurnInit /\ [][TurnNext]_vars

\* C21: getNextActivePlayerId returns nobody exactly when at most one player
\* is eligible (not folded, with money); otherwise it returns an eligible
\* player: the next one after the turn holder in ascending position, around
\* the table, with no eligible player in between, and the first in position
\* when the holder is not eligible.  In the order A, B, C with B folded the
\* next after A is C.
C21_NextActiveSkipsFolded ==
    [][passTurn =>
          LET cur == gameState.currentPlayerTurn
              next == gameState'.currentPlayerTurn
          IN  /\ (next = "") <=> (Cardinality(Active) <= 1)
              /\ next # "" => next \in Active /\ ~players[next].folded
              /\ next = TurnAfter
              /\ (next # "" /\ cur \in Active) =>
                     /\ next # cur
                     /\ \A o \in Active \ {cur, next} :
                            IF Precedes(cur, next)
                            THEN ~(Precedes(cur, o) /\ Precedes(o, next))
                            ELSE ~Precedes(cur, o) /\ ~Precedes(o, next)
              /\ (next # "" /\ cur \notin Active) =>
                     \A o \in Active \ {next} : Precedes(next, o)
              /\ (/\ cur = PlayerIds[1]
                  /\ Active = {PlayerIds[1], PlayerIds[3]}
                  /\ Precedes(PlayerIds[1], PlayerIds[2])
                  /\ Precedes(PlayerIds[2], PlayerIds[3])) =>
                     next = PlayerIds[3]]_vars

\* the players sit in the order p1, p2, p3, the second has folded with money
\* left, and the turn has gone from the first to the third
C21_Witness ==
    /\ DOMAIN players = {PlayerIds[1], PlayerIds[2], PlayerIds[3]}
    /\ players[PlayerIds[1]].position = 0
    /\ players[PlayerIds[2]].position = 1
    /\ players[PlayerIds[3]].position = 2
    /\ players[PlayerIds[2]].folded /\ players[PlayerIds[2]].balance > 0
    /\ Active = {PlayerIds[1], PlayerIds[3]}
    /\ gameState.currentPlayerTurn = PlayerIds[3]

----------------------------------------------------------------------------
\* a step that starts a round anew: startGame or resetHand
RoundClearStep == used'.starts > used.starts \/ used'.resets > used.resets

\* C22: a player's choice and finalScore change only in phase final, from no
\* choice to "min" or "max" (a declaration), or when startGame or resetHand
\* clears them for a new round; a player who has declared keeps choice and
\* finalScore until then, and submitFinal is not available to a player who
\* has declared or outside phase final.
C22_ChoiceSetOnceInFinal ==
    /\ [][\A id \in DOMAIN players \cap DOMAIN players' :
             (\/ players'[id].choice # players[id].choice
              \/ players'[id].finalScore # players[id].finalScore) =>
                 \/ /\ gameState.phase = "final"
                    /\ players[id].choice = ""
                    /\ players'[id].choice \in {"min", "max"}
                 \/ /\ RoundClearStep
                    /\ players'[id].choice = ""
                    /\ players'[id].finalScore = NullScore]_vars
    /\ [](\A id \in DOMAIN players :
             (gameState.phase # "final" \/ players[id].choice # "") =>
                 ~ENABLED (\E c \in {"min", "max"}, sc \in DeclaredScores :
                              submitFinal(id, c, sc) /\ players' # players))

\* in phase final a player has a declaration on record, and a second player
\* has made one too
C22_Witness ==
    /\ gameState.phase = "final"
    /\ \E a, b \in Humans :
          /\ a # b
          /\ players[a].choice = "min" /\ players[a].finalScore # NullScore
          /\ players[b].choice = "max" /\ players[b].finalScore # NullScore

----------------------------------------------------------------------------
(* RaceSpec: two clients on one table.  The handlers of the first act on the
   document as it is; the second client, remote, acts on the snapshot it last
   rendered, and its writes land on the paths they name. *)

\* getNextActivePlayerId in a render that holds gs and ps
getNextActivePlayerIdAt(gs, ps) ==
    LET playerList == SortByPosition(ps,
            {id \in DOMAIN ps : TurnEligible(ps[id])})
        found == {i \in DOMAIN playerList : playerList[i] = gs.currentPlayerTurn}
    IN  IF Len(playerList) <= 1 THEN ""
        ELSE IF found = {} THEN playerList[1]
        ELSE LET currentIndex == CHOOSE i \in found : TRUE
             IN  playerList[(currentIndex % Len(playerList)) + 1]

\* the bot effect passes its early returns in a render that holds gs and ps
BotTurnAt(gs, ps) ==
    /\ gs.phase = "betting"
    /\ ~gs.waitingForDealer
    /\ gs.currentPlayerTurn \in DOMAIN ps
    /\ ps[gs.currentPlayerTurn].isBot

\* a bot effect without its cleanup: a timer once set stays set
BotTimerKept(gs, ps, old) ==
    IF old # <<>> THEN old
    ELSE IF BotTurnAt(gs, ps) THEN <<[gameState |-> gs, players |-> ps]>>
    ELSE <<>>

\* the bot effect on a render: the cleanup clears the timer of the render
\* before, and a new one is set, with the render as its closure, when the
\* turn is a bot's
BotTimerAfterRender(gs, ps, old) ==
    IF BotTurnAt(gs, ps) THEN <<[gameState |-> gs, players |-> ps]>> ELSE <<>>

\* the client that has rendered gs and ps
Rendered(gs, ps, old) ==
    [gameState |-> gs, players |-> ps, timer |-> BotTimerAfterRender(gs, ps, old)]

\* the second client has rendered the document as it is
RemoteInStep == remote.gameState = gameState /\ remote.players = players

\* the bot of RaceSpec, having bet in the segment or not
RaceBots ==
    {[NewPlayer(BotNames[1], BotBalance - bet, FALSE, TRUE, 2) EXCEPT
         !.hand = DealtHand(buildDeck, 3, 2),
         !.hasActed = bet > 0,
         !.lastBet = bet,
         !.totalBetThisHand = bet] : bet \in TableBets}

\* a table in a betting segment, the turn with any of the three
RaceBettingTables ==
    {[gameState |-> [TableState("betting", FALSE, turn, r1, r2) EXCEPT
                        !.pot = @ + r3.totalBetThisHand,
                        !.currentBet = Max2(@, r3.lastBet)],
      players |-> [id \in Range(PlayerIds) |->
                      IF id = PlayerIds[1] THEN r1
                      ELSE IF id = PlayerIds[2] THEN r2 ELSE r3]] :
       r1 \in TablePlayers("diro", TRUE, 0), r2 \in TablePlayers("ann", FALSE, 1),
       r3 \in RaceBots, turn \in Range(PlayerIds)}

\* a table in phase final with two players who have not folded
RaceFinalTables ==
    {[gameState |-> [InitialGameState EXCEPT
                        !.phase = "final",
                        !.pot = r1.totalBetThisHand + r2.totalBetThisHand,
                        !.revealedCards = <<[value |-> "K", suit |-> "H"],
                                            [value |-> "Q", suit |-> "H"]>>,
                        !.totalCards = 2,
                        !.handSize = 1],
      players |-> [id \in {PlayerIds[1], PlayerIds[2]} |->
                      IF id = PlayerIds[1] THEN r1 ELSE r2]] :
       r1 \in {r \in SettlePlayers("diro", TRUE, 0) : ~r.folded},
       r2 \in {r \in SettlePlayers("ann", FALSE, 1) : ~r.folded}}

RaceInit ==
    /\ \E t \in RaceBettingTables \cup RaceFinalTables :
          /\ gameState = t.gameState
          /\ players = t.players
          /\ remote = Rendered(t.gameState, t.players, <<>>)
    /\ history = <<>>
    /\ pendingDeal = NoDeal
    /\ pendingDiscard = NoDiscard
    /\ toast = NoToast
    /\ used = [starts |-> 1, resets |-> 0]
    /\ scoreIn = <<>>
    /\ scoreOut = NoScore

\* the listeners of the second client deliver the document and it renders
observe ==
    /\ ~RemoteInStep
    /\ remote' = Rendered(gameState, players, remote.timer)
    /\ UNCHANGED <<gameState, players, history, pendingDeal, pendingDiscard,
                   toast, used, scoreIn, scoreOut>>

\* the updates of handleBet, computed in a render that holds gs and ps,
\* applied to the copy tg, tp of game/state and game/players
BetApplied(tg, tp, gs, ps, me, betVal, diff) ==
    [gameState |-> [tg EXCEPT
                       !.pot = gs.pot + diff,
                       !.currentBet = betVal,
                       !.currentPlayerTurn = getNextActivePlayerIdAt(gs, ps)],
     players |-> [id \in DOMAIN tp |->
                     IF id = me
                     THEN [tp[id] EXCEPT
                              !.balance = ps[me].balance - diff,
                              !.lastBet = betVal,
                              !.hasActed = TRUE,
                              !.totalBetThisHand = ps[me].totalBetThisHand + diff]
                     ELSE IF betVal > gs.currentBet /\ id \in DOMAIN ps
                          THEN [tp[id] EXCEPT !.hasActed = FALSE]
                          ELSE tp[id]]]

\* handleBet on the second client, where me is logged in: the panel and the
\* handler read the render; the updates go to the document and, at once, to
\* the client's own copy
remoteBet(me, betAmount) ==
    LET gs == remote.gameState
        ps == remote.players
    IN  /\ me \in DOMAIN ps /\ me \in DOMAIN players
        /\ ~ps[me].isBot
        /\ ps[me].isAdmin \/ (gs.phase = "betting" /\ gs.currentPlayerTurn = me)
        /\ ~gs.waitingForDealer
        /\ LET betVal == BetVal(betAmount)
               lastBet == ps[me].lastBet
               diff == Max2(0, betVal - lastBet)
               minBet == IF gs.currentBet = 0 THEN DefaultMinBet ELSE gs.currentBet
               own == BetApplied(gs, ps, gs, ps, me, betVal, diff)
               doc == BetApplied(gameState, players, gs, ps, me, betVal, diff)
           IN  IF betVal < minBet
               THEN Rejected("handleBet", "Puntata non valida")
               ELSE IF diff > ps[me].balance
               THEN Rejected("handleBet", "Saldo insufficiente")
               ELSE /\ players' = doc.players
                    /\ gameState' = doc.gameState
                    /\ remote' = Rendered(own.gameState, own.players, remote.timer)
                    /\ toast' = NoToast
                    /\ UNCHANGED <<history, pendingDeal, pendingDiscard,
                                   used, scoreIn, scoreOut>>

\* the updates of the bot timer's callback, computed from its closure gs, ps,
\* applied to the copy tg, tp
BotApplied(tg, tp, gs, ps) ==
    LET bot == gs.currentPlayerTurn
        currentBet == gs.currentBet
        lastBet == ps[bot].lastBet
        balance == ps[bot].balance
        diff == Max2(0, currentBet - lastBet)
        next == getNextActivePlayerIdAt(gs, ps)
    IN  IF currentBet = 0 \/ currentBet <= lastBet
        THEN [players |-> [tp EXCEPT ![bot].hasActed = TRUE,
                                     ![bot].lastBet = currentBet],
              gameState |-> [tg EXCEPT !.currentPlayerTurn = next]]
        ELSE IF diff > balance
        THEN [players |-> [tp EXCEPT ![bot].folded = TRUE,
                                     ![bot].hasActed = TRUE],
              gameState |-> [tg EXCEPT !.currentPlayerTurn = next]]
        ELSE [players |-> [tp EXCEPT
                              ![bot].balance = balance - diff,
                              ![bot].lastBet = currentBet,
                              ![bot].hasActed = TRUE,
                              ![bot].totalBetThisHand =
                                  ps[bot].totalBetThisHand + diff],
              gameState |-> [tg EXCEPT !.pot = gs.pot + diff,
                                       !.currentPlayerTurn = next]]

\* the bot timer of the second client runs out: the callback reads its
\* closure; the updates go to the document and to the client's own copy
remoteBotFires ==
    /\ remote.timer # <<>>
    /\ LET gs == remote.timer[1].gameState
           ps == remote.timer[1].players
           own == BotApplied(remote.gameState, remote.players, gs, ps)
           doc == BotApplied(gameState, players, gs, ps)
       IN  /\ gs.currentPlayerTurn \in DOMAIN players
           /\ gs.currentPlayerTurn \in DOMAIN remote.players
           /\ players' = doc.players
           /\ gameState' = doc.gameState
           /\ remote' = Rendered(own.gameState, own.players, <<>>)
    /\ toast' = NoToast
    /\ UNCHANGED <<history, pendingDeal, pendingDiscard, used, scoreIn, scoreOut>>

\* the updates of calculateWinners(), computed in a render that holds gs and
\* ps, applied to the copy tg, tp
SettleApplied(tg, tp, gs, ps) ==
    [players |-> [id \in DOMAIN tp |->
                     IF id \in CategoryWinners(ps, "min")
                                  \cup CategoryWinners(ps, "max")
                     THEN [tp[id] EXCEPT
                              !.balance = ps[id].balance + Credit(ps, gs.pot, id)]
                     ELSE tp[id]],
     gameState |-> [tg EXCEPT !.phase = "results"]]

\* calculateWinners() on the second client, in admin mode there: FORZA CALCOLO
\* or the admin effect's timer, in a render of phase final
remoteSettle ==
    LET gs == remote.gameState
        ps == remote.players
        own == SettleApplied(gs, ps, gs, ps)
        doc == SettleApplied(gameState, players, gs, ps)
    IN  /\ \E me \in DOMAIN ps : ps[me].isAdmin /\ ~ps[me].isBot
        /\ gs.phase = "final"
        /\ Len(history) <= MaxHistory
        /\ IF Declared(ps) = {}
           THEN Rejected("calculateWinners", "Nessun vincitore")
           ELSE /\ players' = doc.players
                /\ history' = Append(history,
                       [winners |-> WinnersInfo(ps, gs.pot), pot |-> gs.pot])
                /\ gameState' = doc.gameState
                /\ remote' = Rendered(own.gameState, own.players, remote.timer)
                /\ toast' = NoToast
                /\ UNCHANGED <<pendingDeal, pendingDiscard, used,
                               scoreIn, scoreOut>>

\* RaceSpec has the second client use the panel in renders of phase betting
RemotePanelInRound == remote.gameState.phase = "betting"

\* RaceSpec has the second client at most one write of the first behind
RaceNext ==
    \/ \E me \in DOMAIN players, a \in BetAmounts :
          RemoteInStep /\ BettingPanel(me) /\ PanelInRound /\ handleBet(me, a)
    \/ \E me \in DOMAIN players :
          RemoteInStep /\ BettingPanel(me) /\ CheckButton(me) /\ PanelInRound
             /\ handleCheck(me)
    \/ \E me \in DOMAIN players :
          RemoteInStep /\ BettingPanel(me) /\ PanelInRound /\ handleFold(me)
    \/ \E client \in DOMAIN players : RemoteInStep /\ botActionBy(client)
    \/ RemoteInStep /\ calculateWinners("")
    \/ observe
    \/ \E me \in DOMAIN players, a \in BetAmounts :
          RemotePanelInRound /\ remoteBet(me, a)
    \/ remoteBotFires
    \/ remoteSettle

RaceSpec == RaceInit /\ [][RaceNext]_vars

RECURSIVE SumOver(_, _)
SumOver(f, S) ==
    IF S = {} THEN 0
    ELSE LET id == CHOOSE x \in S : TRUE
         IN  f[id] + SumOver(f, S \ {id})

\* what the step takes from the players' balances
BalancesPaid ==
    SumOver([id \in DOMAIN players |-> players[id].balance - players'[id].balance],
            DOMAIN players)

\* C24: a bet that the second client commits (handleBet or the bot timer's
\* call) adds to the pot of the document exactly what it takes from the
\* bettor's balance, also when the first client has committed a bet since the
\* snapshot both had: the pot then holds the snapshot pot plus both
\* differentials, and nobody else's balance changes.
C24_NoLostAccumulation ==
    [][((\E me \in DOMAIN players, a \in BetAmounts : remoteBet(me, a))
           \/ remoteBotFires) =>
          /\ gameState'.pot = gameState.pot + BalancesPaid
          /\ \A id \in DOMAIN players :
                players'[id].totalBetThisHand - players[id].totalBetThisHand
                   = players[id].balance - players'[id].balance]_vars

\* the admin and the other player have each paid 0.10 into a pot that was
\* empty, and the pot holds 0.10
C24_BetLostFromPot ==
    /\ gameState.phase = "betting"
    /\ gameState.pot = 10
    /\ players[PlayerIds[1]].totalBetThisHand = 10
    /\ players[PlayerIds[1]].balance = 15
    /\ players[PlayerIds[2]].totalBetThisHand = 10
    /\ players[PlayerIds[2]].balance = 15
    /\ players[PlayerIds[3]].totalBetThisHand = 0

\* C25: when the second admin client runs the settlement on the snapshot of
\* phase final that the first has already settled, the balances, the pot and
\* the phase stay as the first run left them and no second history record is
\* written.
C25_RacingSettlementIdempotent ==
    [][(/\ remoteSettle
        /\ remote.gameState.phase = "final"
        /\ gameState.phase = "results"
        /\ Len(history) = 1) =>
          /\ players' = players
          /\ gameState' = gameState
          /\ history' = history]_vars

\* the table is in phase results after one settlement and game/history holds
\* its record twice
C25_SettlementRecordedTwice ==
    /\ gameState.phase = "results"
    /\ Len(history) = 2
    /\ history[1] = history[2]
    /\ history[1].winners # <<>>
    /\ history[1].pot > 0

----------------------------------------------------------------------------
\* C26: a handleBet of amount a that goes through, by a player whose lastBet
\* was l, takes d = a - l from that player's balance, sets lastBet to a and
\* hasActed, adds d to the player's totalBetThisHand and to the pot, leaves
\* the other players' money as it is, and gives the turn to the next active
\* player.
C26_BetEffects ==
    [][\A me \in DOMAIN players, a \in BetAmounts :
          (handleBet(me, a) /\ toast' = NoToast) =>
              LET l == players[me].lastBet
                  d == a - l
              IN  /\ d >= 0
                  /\ players'[me].balance = players[me].balance - d
                  /\ players'[me].lastBet = a
                  /\ players'[me].hasActed
                  /\ players'[me].totalBetThisHand =
                         players[me].totalBetThisHand + d
                  /\ gameState'.pot = gameState.pot + d
                  /\ gameState'.currentPlayerTurn = TurnAfter
                  /\ \A o \in DOMAIN players \ {me} :
                        /\ players'[o].balance = players[o].balance
                        /\ players'[o].lastBet = players[o].lastBet
                        /\ players'[o].totalBetThisHand =
                               players[o].totalBetThisHand]_vars

\* a bet of 0.20 written after the reveal reset lastBet and before the
\* reveal's timer cleared currentBet has stayed in lastBet: the new segment
\* is open, the dealer confirmed, and the player whose turn it is can bet
\* 0.10 with a lastBet of 0.20
C26_BetBelowLastBet ==
    /\ gameState.phase = "betting"
    /\ Len(gameState.revealedCards) = 1
    /\ gameState.currentBet = 0
    /\ ~gameState.waitingForDealer
    /\ ~pendingDiscard.active
    /\ used.resets = 0
    /\ \E me \in DOMAIN players :
          /\ gameState.currentPlayerTurn = me
          /\ BettingPanel(me)
          /\ players[me].lastBet = 20
          /\ players[me].totalBetThisHand = 20
          /\ players[me].balance = 5
          /\ ENABLED (handleBet(me, 10) /\ toast' = NoToast)

----------------------------------------------------------------------------
\* C27: a handleBet that goes through with an amount above currentBet (a
\* raise) leaves hasActed false for every other player and currentBet at the
\* amount, so that with another player still in the hand the segment is not
\* complete; with the amount equal to currentBet no other player's hasActed
\* changes. The admin effect moves the table from betting to revealing only
\* when every player in the hand has acted and matched, and a player's
\* hasActed turns true only by that player's own bet, check or fold, or the
\* bot action taken on that player's turn.
C27_RaiseReopensSegment ==
    /\ [][\A me \in DOMAIN players, a \in BetAmounts :
            (handleBet(me, a) /\ toast' = NoToast) =>
                LET others == DOMAIN players \ {me}
                IN  /\ a > gameState.currentBet =>
                          /\ \A o \in others : ~players'[o].hasActed
                          /\ gameState'.currentBet = a
                          /\ (\E o \in others : players[o].folded = FALSE)
                                => ~BettingComplete'
                    /\ a = gameState.currentBet =>
                          /\ \A o \in others :
                                players'[o].hasActed = players[o].hasActed
                          /\ gameState'.currentBet = gameState.currentBet]_vars
    /\ [][(gameState.phase = "betting" /\ gameState'.phase = "revealing") =>
              \A o \in DOMAIN players :
                  players[o].folded = FALSE =>
                      /\ players[o].hasActed
                      /\ players[o].lastBet = gameState.currentBet]_vars
    /\ [][\A o \in DOMAIN players :
              (/\ o \in DOMAIN players'
               /\ ~players[o].hasActed
               /\ players'[o].hasActed) =>
                  \/ PanelCall(o)
                  \/ botAction /\ gameState.currentPlayerTurn = o]_vars

\* a player had bet 0.10 and acted; another raised to 0.20, and the first,
\* still in the hand, is back to not having acted and owes 0.10
C27_Witness ==
    /\ gameState.phase = "betting"
    /\ gameState.currentBet = 20
    /\ ~BettingComplete
    /\ \E me \in DOMAIN players, o \in DOMAIN players :
          /\ me # o
          /\ players[me].lastBet = 20
          /\ players[me].hasActed
          /\ players[o].folded = FALSE
          /\ players[o].lastBet = 10
          /\ players[o].totalBetThisHand = 10
          /\ ~players[o].hasActed

----------------------------------------------------------------------------
\* C28: each revealNextCard that draws a card appends exactly that one card
\* to revealedCards and resets every player's lastBet to 0 and hasActed to
\* false. If the new length reaches totalCards the same write sets phase
\* final, currentBet 0 and an empty currentPlayerTurn; otherwise the call
\* arms its timer, and the timer, the only step that ends it, sets phase
\* betting, currentBet 0 and an empty currentPlayerTurn and leaves
\* revealedCards alone.
C28_RevealEffects ==
    /\ [][(revealNextCard /\ toast' = NoToast) =>
            /\ Len(gameState'.revealedCards) = Len(gameState.revealedCards) + 1
            /\ SubSeq(gameState'.revealedCards, 1, Len(gameState.revealedCards))
                   = gameState.revealedCards
            /\ DOMAIN players' = DOMAIN players
            /\ \A id \in DOMAIN players :
                  /\ players'[id].lastBet = 0
                  /\ players'[id].hasActed = FALSE
            /\ IF Len(gameState'.revealedCards) >= gameState.totalCards
               THEN /\ gameState'.phase = "final"
                    /\ gameState'.currentBet = 0
                    /\ gameState'.currentPlayerTurn = ""
                    /\ ~pendingDiscard'.active
               ELSE pendingDiscard'.active]_vars
    /\ [][(pendingDiscard.active /\ ~pendingDiscard'.active) =>
            /\ gameState'.phase = "betting"
            /\ gameState'.currentBet = 0
            /\ gameState'.currentPlayerTurn = ""
            /\ gameState'.revealedCards = gameState.revealedCards]_vars

\* bets were made, the first of two or more cards was revealed and the
\* reveal's timer has run: phase betting, nothing to match, nobody's turn,
\* and every player back to lastBet 0 and hasActed false
C28_Witness ==
    /\ gameState.phase = "betting"
    /\ Len(gameState.revealedCards) = 1
    /\ Len(gameState.revealedCards) < gameState.totalCards
    /\ gameState.currentBet = 0
    /\ gameState.currentPlayerTurn = ""
    /\ ~pendingDiscard.active
    /\ gameState.pot > 0
    /\ \E id \in DOMAIN players : players[id].totalBetThisHand > 0
    /\ \A id \in DOMAIN players :
          players[id].lastBet = 0 /\ ~players[id].hasActed

----------------------------------------------------------------------------
\* C29: the discard is applied once for each newly revealed card, the last
\* one included: in every state with phase betting and the gate set after a
\* reveal, or with phase final, no player's stored hand holds a card whose
\* value is the value of a card in revealedCards.
C29_NoRevealedValueInHand ==
    (\/ /\ gameState.phase = "betting"
        /\ gameState.waitingForDealer
        /\ gameState.revealedCards # <<>>
     \/ gameState.phase = "final") =>
        \A id \in DOMAIN players :
            \A i \in DOMAIN players[id].hand :
                \A j \in DOMAIN gameState.revealedCards :
                    players[id].hand[i].value # gameState.revealedCards[j].value

\* all the cards are on the table, phase final, and a player's stored hand
\* still holds a card of the value of the last card revealed
C29_LastCardNotDiscarded ==
    /\ gameState.phase = "final"
    /\ Len(gameState.revealedCards) = gameState.totalCards
    /\ ~pendingDiscard.active
    /\ \E id \in DOMAIN players :
          \E i \in DOMAIN players[id].hand :
              players[id].hand[i].value =
                  gameState.revealedCards[Len(gameState.revealedCards)].value

----------------------------------------------------------------------------
\* the step starts a round or clears the table: startGame, resetHand or
\* handleNextHand
RoundBoundaryStep ==
    \/ \E me \in DOMAIN players, n \in TotalCardsOptions : startGame(me, n)
    \/ \E me \in DOMAIN players : resetHand(me)
    \/ \E me \in DOMAIN players : handleNextHand(me)

----------------------------------------------------------------------------
(* StartSpec: startGame called from the admin panel on a table of two
   players in any phase, with one, two or no admin record seated *)

StartPositions == 0..2

\* a player of StartSpec: a record of TableSpec, seated at pos, with or
\* without a declaration left from the round before
StartPlayers(name, pos) ==
    {[r EXCEPT !.choice = c, !.finalScore = IF c = "" THEN NullScore ELSE 0,
               !.discardedCards = IF r.folded THEN <<r.hand[1]>> ELSE <<>>] :
        r \in TablePlayers(name, TRUE, pos) \cup TablePlayers(name, FALSE, pos),
        c \in {"", "min"}}

StartInit ==
    /\ \E pos1 \in StartPositions, pos2 \in StartPositions, ph \in TablePhases :
          /\ pos1 # pos2
          /\ \E r1 \in StartPlayers("diro", pos1), r2 \in StartPlayers("ann", pos2) :
                /\ players = [id \in {PlayerIds[1], PlayerIds[2]} |->
                                 IF id = PlayerIds[1] THEN r1 ELSE r2]
                /\ gameState = [TableState(ph, FALSE, "", r1, r2) EXCEPT
                                   !.dealerIndex = pos2]
    /\ history = <<>>
    /\ pendingDeal = NoDeal
    /\ pendingDiscard = NoDiscard
    /\ toast = NoToast
    /\ used = [starts |-> 0, resets |-> 0]
    /\ scoreIn = <<>>
    /\ scoreOut = NoScore
    /\ remote = NoRemote

StartNext ==
    \/ \E n \in TotalCardsOptions : startGameCalled(n)
    \/ dealHands

StartSpec == StartInit /\ [][StartNext]_vars

\* the players with isAdmin set
AdminRecords == {id \in DOMAIN players : players[id].isAdmin}

\* C31: a startGame that goes through sets phase betting with pot 0,
\* currentBet 0 and no revealed card, resets every player's lastBet,
\* totalBetThisHand, hasActed, folded, choice, finalScore, hand and
\* discardedCards, sets dealerIndex to the position of an admin record (the
\* admin's, when there is one) or, with no admin seated, to the lowest
\* position, and leaves every balance as it was; the deal that follows writes
\* hands only.
C31_StartGameEffects ==
    /\ [][\A n \in TotalCardsOptions :
            (startGameCalled(n) /\ toast' = NoToast) =>
                /\ gameState'.phase = "betting"
                /\ gameState'.pot = 0
                /\ gameState'.currentBet = 0
                /\ gameState'.revealedCards = <<>>
                /\ DOMAIN players' = DOMAIN players
                /\ \A id \in DOMAIN players :
                      /\ players'[id].lastBet = 0
                      /\ players'[id].totalBetThisHand = 0
                      /\ players'[id].hasActed = FALSE
                      /\ players'[id].folded = FALSE
                      /\ players'[id].choice = ""
                      /\ players'[id].finalScore = NullScore
                      /\ players'[id].hand = <<>>
                      /\ players'[id].discardedCards = <<>>
                      /\ players'[id].balance = players[id].balance
                /\ IF AdminRecords # {}
                   THEN /\ \E a \in AdminRecords :
                              gameState'.dealerIndex = players[a].position
                        /\ \A a \in AdminRecords :
                              AdminRecords = {a} =>
                                  gameState'.dealerIndex = players[a].position
                   ELSE /\ \E p \in DOMAIN players :
                              gameState'.dealerIndex = players[p].position
                        /\ \A p \in DOMAIN players :
                              gameState'.dealerIndex <= players[p].position]_vars
    /\ [][dealHands =>
            /\ DOMAIN players' = DOMAIN players
            /\ \A id \in DOMAIN players :
                  /\ players'[id].balance = players[id].balance
                  /\ players'[id].lastBet = players[id].lastBet
                  /\ players'[id].totalBetThisHand = players[id].totalBetThisHand
                  /\ players'[id].hasActed = players[id].hasActed
                  /\ players'[id].folded = players[id].folded
                  /\ players'[id].choice = players[id].choice
                  /\ players'[id].finalScore = players[id].finalScore
            /\ gameState'.phase = gameState.phase
            /\ gameState'.pot = gameState.pot
            /\ gameState'.currentBet = gameState.currentBet
            /\ gameState'.dealerIndex = gameState.dealerIndex]_vars

\* a round started on a table with no admin seated: the dealer pointer is at
\* the lowest position, which is not 0, every round field is cleared and the
\* balances are what the players had left
C31_Witness ==
    /\ used.starts = 1
    /\ pendingDeal.active
    /\ gameState.phase = "betting"
    /\ AdminRecords = {}
    /\ gameState.dealerIndex = 1
    /\ \A id \in DOMAIN players : players[id].position >= 1
    /\ \E id \in DOMAIN players : players[id].balance < 25
    /\ \A id \in DOMAIN players :
          players[id].totalBetThisHand = 0 /\ players[id].hand = <<>>

----------------------------------------------------------------------------
\* every player still in the hand has declared, and there is one
EveryoneInHandDeclared ==
    /\ \A id \in DOMAIN players :
          players[id].folded = FALSE =>
              /\ players[id].choice \in {"min", "max"}
              /\ players[id].finalScore # NullScore
    /\ \E id \in DOMAIN players :
          players[id].folded = FALSE /\ players[id].username # ""

\* C32: the admin effect schedules the settlement of phase final only in
\* states in which every non-folded player, human or bot, has choice and
\* finalScore set and there is such a player with a username; the timer's
\* call of calculateWinners happens from such states only.
C32_SettlementScheduledWhenAllDeclared ==
    /\ [](SettleScheduled => EveryoneInHandDeclared)
    /\ [][settleTimer => EveryoneInHandDeclared]_vars

\* in phase final a human and a bot, both still in the hand, have declared:
\* the settlement is scheduled
C32_Witness ==
    /\ SettleScheduled
    /\ \E h \in DOMAIN players, b \in DOMAIN players :
          /\ ~players[h].isBot /\ players[h].folded = FALSE
          /\ players[h].choice # ""
          /\ players[b].isBot /\ players[b].folded = FALSE
          /\ players[b].choice # ""

----------------------------------------------------------------------------
(* BotSpec: a betting segment of the admin and two bots, the bots with any
   purse, rich or poor *)

\* what a bot has left, in cents
BotPurses == {0, 5, 10, 30}

\* a bot of BotSpec at position pos, having bet in the segment or not
PoorBots(k, pos) ==
    {[NewPlayer(BotNames[k], purse, FALSE, TRUE, pos) EXCEPT
         !.hand = DealtHand(buildDeck, pos + 1, 2),
         !.hasActed = bet > 0,
         !.lastBet = bet,
         !.totalBetThisHand = bet] : purse \in BotPurses, bet \in TableBets}

BotInit ==
    /\ \E r1 \in {r \in TablePlayers("diro", TRUE, 0) : ~r.folded},
          r2 \in PoorBots(1, 1), r3 \in PoorBots(2, 2),
          turn \in Range(PlayerIds), cb \in {0, DefaultMinBet, 2 * DefaultMinBet} :
          /\ cb >= Max2(r1.lastBet, Max2(r2.lastBet, r3.lastBet))
          /\ cb = 0 => r1.totalBetThisHand = 0
          /\ players = [id \in Range(PlayerIds) |->
                           IF id = PlayerIds[1] THEN r1
                           ELSE IF id = PlayerIds[2] THEN r2 ELSE r3]
          /\ gameState = [InitialGameState EXCEPT
                 !.phase = "betting", !.totalCards = 2, !.handSize = 2,
                 !.currentBet = cb, !.currentPlayerTurn = turn,
                 !.pot = 2 * DefaultMinBet + r1.totalBetThisHand
                           + r2.totalBetThisHand + r3.totalBetThisHand]
    /\ history = <<>>
    /\ pendingDeal = NoDeal
    /\ pendingDiscard = NoDiscard
    /\ toast = NoToast
    /\ used = [starts |-> 1, resets |-> 0]
    /\ scoreIn = <<>>
    /\ scoreOut = NoScore
    /\ remote = NoRemote

BotNext ==
    \/ botAction
    \/ \E me \in DOMAIN players, a \in BetAmounts :
          BettingPanel(me) /\ PanelInRound /\ handleBet(me, a)
    \/ \E me \in DOMAIN players :
          BettingPanel(me) /\ CheckButton(me) /\ PanelInRound /\ handleCheck(me)
    \/ adminEffectBetting

BotSpec == BotInit /\ [][BotNext]_vars

\* C33: the bot action on the bot's turn checks when currentBet is not above
\* the bot's lastBet (hasActed set, no money moved); otherwise it folds when
\* the differential owed exceeds the bot's balance; otherwise it calls, paying
\* exactly the differential from the balance into the pot and setting lastBet
\* to currentBet.  In each case the turn goes to the next active player,
\* currentBet stays, and no other player's record changes.
C33_BotAction ==
    [][botAction =>
         LET bot == gameState.currentPlayerTurn
             old == players[bot]
             new == players'[bot]
             owed == gameState.currentBet - old.lastBet
         IN  /\ old.isBot
             /\ gameState'.currentBet = gameState.currentBet
             /\ gameState'.phase = gameState.phase
             /\ gameState'.currentPlayerTurn = TurnAfter
             /\ \A o \in DOMAIN players \ {bot} : players'[o] = players[o]
             /\ new.hasActed
             /\ IF gameState.currentBet <= old.lastBet
                THEN /\ new.balance = old.balance
                     /\ new.totalBetThisHand = old.totalBetThisHand
                     /\ new.folded = old.folded
                     /\ gameState'.pot = gameState.pot
                ELSE IF owed > old.balance
                THEN /\ new.folded
                     /\ new.balance = old.balance
                     /\ new.lastBet = old.lastBet
                     /\ new.totalBetThisHand = old.totalBetThisHand
                     /\ gameState'.pot = gameState.pot
                ELSE /\ new.balance = old.balance - owed
                     /\ new.lastBet = gameState.currentBet
                     /\ new.totalBetThisHand = old.totalBetThisHand + owed
                     /\ new.folded = old.folded
                     /\ gameState'.pot = gameState.pot + owed]_vars

\* one bot, owing 0.20 with 0.05 left, has folded without paying; the other,
\* owing 0.10 with 0.10 left, has called with its last cents
C33_Witness ==
    /\ gameState.phase = "betting"
    /\ gameState.currentBet = 20
    /\ \E f \in DOMAIN players, c \in DOMAIN players :
          /\ players[f].isBot /\ players[f].folded /\ players[f].hasActed
          /\ players[f].balance = 5 /\ players[f].lastBet = 0
          /\ players[c].isBot /\ ~players[c].folded /\ players[c].hasActed
          /\ players[c].balance = 0 /\ players[c].lastBet = 20
          /\ players[c].totalBetThisHand = 20

----------------------------------------------------------------------------
\* C34: a bot's turn is played only by a client in admin mode and never while
\* the dealer gate is set: the bot effect in the page of a client that is not
\* the admin plays no bot action.
C34_BotActionByAdminOnly ==
    [][\A client \in DOMAIN players :
          botActionBy(client) =>
              /\ IsAdminClient(client)
              /\ ~gameState.waitingForDealer]_vars

\* it is a bot's turn, the gate is clear, and the bot effect in the page of a
\* player who is not the admin is about to play it
C34_BotPlayedByOtherClient ==
    /\ gameState.phase = "betting"
    /\ ~gameState.waitingForDealer
    /\ gameState.currentPlayerTurn \in DOMAIN players
    /\ players[gameState.currentPlayerTurn].isBot
    /\ \E client \in Humans :
          /\ ~IsAdminClient(client)
          /\ ENABLED botActionBy(client)

----------------------------------------------------------------------------
(* Bot3Spec: the bot's turn as the third variant of the page plays it, inside
   the admin effect, on the tables of BotSpec *)

\* the third variant's admin effect on a bot's turn, 1.2 s later: the bot
\* bets max(currentBet, 0.10)
adminEffectBotBet ==
    /\ AdminClients # {}
    /\ EffectPlayerList # <<>>
    /\ gameState.phase = "betting"
    /\ ~BettingComplete
    /\ gameState.currentPlayerTurn \in DOMAIN players
    /\ players[gameState.currentPlayerTurn].isBot
    /\ LET actingPlayer == gameState.currentPlayerTurn
           targetBet == Max2(gameState.currentBet, DefaultMinBet)
           diff == targetBet - players[actingPlayer].lastBet
       IN  /\ players' = [players EXCEPT
                  ![actingPlayer].lastBet = targetBet,
                  ![actingPlayer].balance = @ - diff,
                  ![actingPlayer].hasActed = TRUE]
           /\ gameState' = [gameState EXCEPT
                  !.pot = @ + diff,
                  !.currentBet = targetBet,
                  !.currentPlayerTurn = getNextActivePlayerId]
    /\ toast' = NoToast
    /\ UNCHANGED <<remote, history, pendingDeal, pendingDiscard, used, scoreIn, scoreOut>>

Bot3Next ==
    \/ adminEffectBotBet
    \/ adminEffectBetting

Bot3Spec == BotInit /\ [][Bot3Next]_vars

\* C35: every player's balance is non-negative in every reachable state.
C35_BalanceNonNegative ==
    \A id \in DOMAIN players : players[id].balance >= 0

\* a bot has bet more than it had: its balance is below zero
C35_BotOverdrawn ==
    \E id \in DOMAIN players :
        /\ players[id].isBot
        /\ players[id].hasActed
        /\ players[id].lastBet = gameState.currentBet
        /\ players[id].balance < 0

----------------------------------------------------------------------------
\* C36: no two player records have the same position, so that at most one
\* player is at dealerIndex.
C36_PositionsUnique ==
    /\ \A a \in DOMAIN players, b \in DOMAIN players :
          a # b => players[a].position # players[b].position
    /\ Cardinality({id \in DOMAIN players :
                       players[id].position = gameState.dealerIndex}) <= 1

\* a player joined first and the admin logged in after: both are at position
\* 0, the position the dealer pointer is at
C36_TwoAtPositionZero ==
    \E a \in DOMAIN players, b \in DOMAIN players :
        /\ a # b
        /\ players[a].isAdmin
        /\ ~players[b].isAdmin /\ ~players[b].isBot
        /\ players[a].position = 0
        /\ players[b].position = 0
        /\ gameState.dealerIndex = 0

----------------------------------------------------------------------------
\* C37: in every state with phase betting, revealing or final the pot is the
\* sum of totalBetThisHand over all players, folded or not.
C37_PotIsSumOfBets ==
    gameState.phase \in {"betting", "revealing", "final"} =>
        gameState.pot =
            SumOver([id \in DOMAIN players |-> players[id].totalBetThisHand],
                    DOMAIN players)

\* two players have each paid 0.10 in the hand and the pot of the betting
\* segment holds 0.10
C37_PotBelowBets ==
    /\ gameState.phase = "betting"
    /\ gameState.pot = 10
    /\ \E a \in DOMAIN players, b \in DOMAIN players :
          /\ a # b
          /\ players[a].totalBetThisHand = 10
          /\ players[b].totalBetThisHand = 10
    /\ SumOver([id \in DOMAIN players |-> players[id].totalBetThisHand],
               DOMAIN players) = 20

----------------------------------------------------------------------------
\* the sum of the balances of ps
TotalBalance(ps) ==
    SumOver([id \in DOMAIN ps |-> ps[id].balance], DOMAIN ps)

\* C38: a normal settlement never pays out more than the pot: what one call
\* of calculateWinners adds to the balances, each winner's split rounded to
\* the cent, is at most the pot.
C38_PayoutWithinPot ==
    [][NormalSettlementStep =>
          TotalBalance(players') - TotalBalance(players) <= gameState.pot]_vars

\* a pot of 0.20 was settled among three tied winners of one category: each
\* was credited 0.07, 0.21 in all
C38_PaidMoreThanPot ==
    /\ gameState.phase = "results"
    /\ Len(history) = 1
    /\ history[1].pot = 20
    /\ Len(history[1].winners) = 3
    /\ \A i \in DOMAIN history[1].winners :
          /\ history[1].winners[i].amount = 7
          /\ history[1].winners[i].tag = history[1].winners[1].tag
          /\ history[1].winners[i].tag # "LAS VEGAS"

----------------------------------------------------------------------------
\* what the players seated before the step hold after it
BalanceOfSeated ==
    SumOver([id \in DOMAIN players |-> players'[id].balance], DOMAIN players)

\* C39: a round's pot is paid out once: once calculateWinners has credited
\* the balances and set phase results, no step before the next startGame,
\* be it another calculateWinners, a LAS VEGAS assignment, resetHand or
\* handleNextHand, credits a balance again.
C39_PotPaidOnce ==
    [][(gameState.phase = "results" /\ DOMAIN players \subseteq DOMAIN players') =>
          BalanceOfSeated <= TotalBalance(players)]_vars

\* the table was settled once and then reset: the players, none of them a
\* bot, now hold more than the budgets they sat down with
C39_RefundedAfterPayout ==
    /\ Len(history) = 1
    /\ used.resets = 1
    /\ gameState.pot = 0
    /\ \A id \in DOMAIN players : ~players[id].isBot
    /\ \A b \in Budgets :
          TotalBalance(players) > b * Cardinality(DOMAIN players)

----------------------------------------------------------------------------
(* ProgressSpec: a betting segment played to its end by three humans, each
   acting when currentPlayerTurn names them, the admin effect re-evaluating *)

\* what the players of ProgressSpec have left, in cents, after each put 0.20
\* into the pot in the segment before
ProgressPurses == {0, DefaultMinBet, 2 * DefaultMinBet}

ProgressPlayers(name, admin, pos) ==
    {[NewPlayer(name, purse, admin, FALSE, pos) EXCEPT
         !.hand = DealtHand(buildDeck, pos + 1, 2),
         !.totalBetThisHand = 2 * DefaultMinBet] : purse \in ProgressPurses}

\* the table after a reveal's timer has opened the next segment and the admin
\* has confirmed the dealer: bets cleared, nobody has acted, no turn holder
ProgressInit ==
    /\ \E r1 \in ProgressPlayers("diro", TRUE, 0),
          r2 \in ProgressPlayers("ann", FALSE, 1),
          r3 \in ProgressPlayers("bea", FALSE, 2), d \in 0..2 :
          /\ players = [id \in Range(PlayerIds) |->
                           IF id = PlayerIds[1] THEN r1
                           ELSE IF id = PlayerIds[2] THEN r2 ELSE r3]
          /\ gameState = [InitialGameState EXCEPT
                 !.phase = "betting", !.totalCards = 2, !.handSize = 2,
                 !.dealerIndex = d,
                 !.revealedCards = <<[value |-> "K", suit |-> "H"]>>,
                 !.pot = 6 * DefaultMinBet]
    /\ history = <<>>
    /\ pendingDeal = NoDeal
    /\ pendingDiscard = NoDiscard
    /\ toast = NoToast
    /\ used = [starts |-> 1, resets |-> 0]
    /\ scoreIn = <<>>
    /\ scoreOut = NoScore
    /\ remote = NoRemote

\* the player currentPlayerTurn names uses their betting panel
OnTurn(me) == gameState.currentPlayerTurn = me /\ BettingPanel(me) /\ PanelInRound

\* the player currentPlayerTurn names bets, checks or folds, and the handler
\* accepts it
TurnHolderActs ==
    \E me \in DOMAIN players :
       /\ OnTurn(me)
       /\ \/ \E a \in BetAmounts : handleBet(me, a)
          \/ CheckButton(me) /\ handleCheck(me)
          \/ handleFold(me)
       /\ toast' = NoToast

ProgressNext ==
    \/ \E me \in DOMAIN players, a \in BetAmounts : OnTurn(me) /\ handleBet(me, a)
    \/ \E me \in DOMAIN players : OnTurn(me) /\ CheckButton(me) /\ handleCheck(me)
    \/ \E me \in DOMAIN players : OnTurn(me) /\ handleFold(me)
    \/ adminEffectBetting

\* the effect runs again after every write it depends on, and a player whose
\* turn it is does act
ProgressSpec ==
    ProgressInit /\ [][ProgressNext]_vars
       /\ WF_vars(TurnHolderActs) /\ WF_vars(adminEffectBetting)

\* C40: betting segments make progress: from any state with phase betting,
\* the gate clear and a non-folded player, when every player acts on their
\* turn and the admin effect keeps re-evaluating, phase eventually becomes
\* revealing (unless everybody folds first, which leaves no segment to end);
\* no non-folded player who still has to act is skipped forever.
C40_BettingSegmentEnds ==
    (/\ gameState.phase = "betting"
     /\ ~gameState.waitingForDealer
     /\ \E id \in DOMAIN players : ~players[id].folded)
       ~> (\/ gameState.phase = "revealing"
           \/ \A id \in DOMAIN players : players[id].folded)

\* the turn is with a player who has acted while another non-folded player,
\* who has not acted, has no money and so is in no turn order
C40_BrokePlayerSkipped ==
    /\ gameState.phase = "betting"
    /\ ~gameState.waitingForDealer
    /\ gameState.currentPlayerTurn \in DOMAIN players
    /\ players[gameState.currentPlayerTurn].hasActed
    /\ \E id \in DOMAIN players :
          /\ ~players[id].folded
          /\ ~players[id].hasActed
          /\ players[id].balance = 0
          /\ getNextActivePlayerId # id

====
